---- MODULE Spec2Model ----
(***************************************************************************)
(* Model of the Image-Processing-API: the hand-written multipart/form-data *)
(* decoder and upload middleware (src/README.md, second listing), the      *)
(* ImageProcessor pipeline (src/src/utils/imageProcessor.ts), the request  *)
(* boundary (src/src/utils/errors.ts) and the image routes                 *)
(* (src/unnamed/part_000).                                                 *)
(*                                                                         *)
(* Bytes are integers 0..255, strings are sequences of code points.        *)
(* Offsets are 0-based as in the source; a sequence s holds offset i at    *)
(* s[i + 1].                                                               *)
(***************************************************************************)
EXTENDS Integers, Sequences, FiniteSets, TLC

VARIABLES
    \* ---- parseMultipartData (one call) ----
    parts,      \* the parts the body was framed from (input description)
    data,       \* Uint8Array(body)
    token,      \* the boundary string of the call
    start,      \* scan cursor
    end,        \* loop variable `end` (never assigned by the loop)
    files,      \* Map<string, UploadedFile[]>, in insertion order
    fields,     \* Map<string, string>, in insertion order
    mpc,        \* position in parseMultipartData
    \* ---- ImageProcessor.process (one call) ----
    options,    \* the options object handed to process
    canvasOk,   \* whether initialize ends with a canvas
    ppc,        \* position in process
    trace,      \* stage events, in the order they happened
    \* ---- one HTTP request to the image routes ----
    req,        \* the request: route, path parameter, query, content-type, body
    rt,         \* the runtime: canvas API present, 2D contexts obtainable
    rpc,        \* position of the request in the middleware chain
    ctx,        \* what the upload middleware set on the context
    resp,       \* the response sent
    proc,       \* the ImageProcessor of the /resize and /crop handlers
    pending,    \* promises of the platform not settled yet
    micro,      \* continuations ready to run, first in first out
    unhandled,  \* a promise nobody awaits was rejected
    \* ---- one call of extractImageInfo ----
    buf,        \* the image bytes
    dims,       \* what the call returned
    dpc,        \* position of the call
    \* ---- a canvas under the transforms of ImageProcessor ----
    surf,       \* the canvas: width, height, RGBA bytes
    prev,       \* the canvas before the last transform
    hist,       \* the transforms called so far, with their arguments
    fault       \* a transform threw

mvars == <<parts, data, token, start, end, files, fields, mpc>>
pvars == <<options, canvasOk, ppc, trace>>
rvars == <<req, rt, rpc, ctx, resp, proc, pending, micro, unhandled>>
dvars == <<buf, dims, dpc>>
svars == <<surf, prev, hist, fault>>

-----------------------------------------------------------------------------
(* Generic helpers *)

Min(S) == CHOOSE x \in S : \A y \in S : x <= y

\* the element of a set of one element: a value computed once and named
Only(S) == CHOOSE x \in S : TRUE
Max(S) == CHOOSE x \in S : \A y \in S : x >= y

\* value of an out-of-range typed-array read (JavaScript `undefined`)
Undefined == -1

\* data[i] of a Uint8Array, i a 0-based offset
At(d, i) == IF i >= 0 /\ i < Len(d) THEN d[i + 1] ELSE Undefined

\* d.slice(from, to), 0-based, `to` exclusive
Slice(d, from, to) ==
    LET f == IF from > Len(d) THEN Len(d) ELSE from
        t == IF to > Len(d) THEN Len(d) ELSE to
    IN  IF t <= f THEN << >> ELSE SubSeq(d, f + 1, t)

RECURSIVE Concat(_)
Concat(ss) == IF ss = << >> THEN << >> ELSE Head(ss) \o Concat(Tail(ss))

CR == 13
LF == 10
CRLF == <<CR, LF>>
QUOTE == 34
SEMI == 59

-----------------------------------------------------------------------------
(* Text: TextDecoder, String.prototype.trim, the two header regexes *)

REPLACEMENT == 65533

\* TextDecoder().decode on bytes in which no byte >= 0x80 is part of a
\* well-formed multi-byte sequence (true of every body framed below): an ASCII
\* byte is its own code point, any other byte decodes to U+FFFD.
Decode(bytes) ==
    [k \in 1..Len(bytes) |-> IF bytes[k] < 128 THEN bytes[k] ELSE REPLACEMENT]

\* the regex class \s, which is also what trim() strips
IsSpace(c) ==
    \/ c \in {9, 10, 11, 12, 13, 32, 160, 5760, 8232, 8233, 8239, 8287, 12288, 65279}
    \/ c \in 8192..8202

Trim(s) ==
    LET keep == {k \in 1..Len(s) : ~IsSpace(s[k])}
    IN  IF keep = {} THEN << >> ELSE SubSeq(s, Min(keep), Max(keep))

\* the /i flag on ASCII letters
Lower(c) == IF c >= 65 /\ c <= 90 THEN c + 32 ELSE c

\* a literal of the pattern (given in lower case) matches s at offset i
MatchLit(s, i, lit) ==
    /\ i + Len(lit) <= Len(s)
    /\ \A j \in 1..Len(lit) : Lower(s[i + j]) = lit[j]

\* offset after a greedy \s* starting at offset i
SkipSpace(s, i) == Min({k \in i..Len(s) : k = Len(s) \/ ~IsSpace(s[k + 1])})

\* offset after a greedy [^stop]* starting at offset i
SpanNot(s, i, stop) == Min({k \in i..Len(s) : k = Len(s) \/ s[k + 1] \in stop})

LitContentDisposition ==    \* "content-disposition:"
    <<99, 111, 110, 116, 101, 110, 116, 45, 100, 105, 115, 112, 111, 115, 105,
      116, 105, 111, 110, 58>>
LitFormData == <<102, 111, 114, 109, 45, 100, 97, 116, 97, 59>>   \* "form-data;"
LitName == <<110, 97, 109, 101, 61, 34>>                          \* name="
LitFilename == <<102, 105, 108, 101, 110, 97, 109, 101, 61, 34>>  \* filename="
LitContentType ==           \* "content-type:"
    <<99, 111, 110, 116, 101, 110, 116, 45, 116, 121, 112, 101, 58>>

NoMatch == [ok |-> FALSE]

\* /Content-Disposition:\s*form-data;\s*name="([^"]+)"(?:;\s*filename="([^"]*)")?/i
\* tried at offset i of s, one operator per piece of the pattern; offsets:
\* e..f is group 1, k..m is group 2, h is where `filename="` has to start.
\* hasFilename is FALSE where group 2 is undefined.
DispositionGroups(s, e, f, k, m) ==
    [ok |-> TRUE,
     name |-> SubSeq(s, e + 1, f),
     hasFilename |-> m < Len(s),
     filename |-> IF m < Len(s) THEN SubSeq(s, k + 1, m) ELSE << >>]

DispositionOptional(s, e, f, h) ==
    Only({DispositionGroups(s, e, f, h + Len(LitFilename), m) :
            m \in {IF MatchLit(s, h, LitFilename)
                   THEN SpanNot(s, h + Len(LitFilename), {QUOTE}) ELSE Len(s)}})

DispositionNameValue(s, e, f) ==
    IF f = e \/ f >= Len(s) THEN NoMatch
    ELSE Only({DispositionOptional(s, e, f, h) :
                h \in {IF f + 1 < Len(s) /\ s[f + 2] = SEMI
                       THEN SkipSpace(s, f + 2) ELSE Len(s)}})

DispositionName(s, d) ==
    IF ~MatchLit(s, d, LitName) THEN NoMatch
    ELSE Only({DispositionNameValue(s, d + Len(LitName), f) :
                f \in {SpanNot(s, d + Len(LitName), {QUOTE})}})

DispositionFormData(s, b) ==
    IF ~MatchLit(s, b, LitFormData) THEN NoMatch
    ELSE Only({DispositionName(s, d) : d \in {SkipSpace(s, b + Len(LitFormData))}})

DispositionAt(s, i) ==
    IF ~MatchLit(s, i, LitContentDisposition) THEN NoMatch
    ELSE Only({DispositionFormData(s, b) :
                b \in {SkipSpace(s, i + Len(LitContentDisposition))}})

\* headers.match(<the disposition regex>): the leftmost match
DispositionFirst(s, hits) == IF hits = {} THEN NoMatch ELSE DispositionAt(s, Min(hits))

DispositionMatch(s) ==
    Only({DispositionFirst(s, hits) : hits \in {{i \in 0..Len(s) : DispositionAt(s, i).ok}}})

\* /Content-Type:\s*([^\r\n]+)/i tried at offset i of s: \s* is greedy and
\* gives back characters until [^\r\n]+ finds one character to take.
TypeValue(s, qs) ==
    IF qs = {} THEN NoMatch
    ELSE [ok |-> TRUE,
          value |-> SubSeq(s, Max(qs) + 1, SpanNot(s, Max(qs), {CR, LF}))]

TypeAt(s, i) ==
    IF ~MatchLit(s, i, LitContentType) THEN NoMatch
    ELSE TypeValue(s, {q \in (i + Len(LitContentType))..SkipSpace(s, i + Len(LitContentType)) :
                            q < Len(s) /\ s[q + 1] \notin {CR, LF}})

\* headers.match(<the content-type regex>): the leftmost match
TypeFirst(s, hits) == IF hits = {} THEN NoMatch ELSE TypeAt(s, Min(hits))

TypeMatch(s) ==
    Only({TypeFirst(s, hits) : hits \in {{i \in 0..Len(s) : TypeAt(s, i).ok}}})

StrOctetStream ==           \* "application/octet-stream"
    <<97, 112, 112, 108, 105, 99, 97, 116, 105, 111, 110, 47, 111, 99, 116,
      101, 116, 45, 115, 116, 114, 101, 97, 109>>

-----------------------------------------------------------------------------
(* The multipart decoder *)

\* findBoundary(data, boundary, start): the first offset >= start at which
\* boundary occurs, -1 when there is none
findBoundary(d, boundary, from) ==
    LET hits == {i \in from..(Len(d) - Len(boundary)) :
                    \A j \in 0..(Len(boundary) - 1) : At(d, i + j) = boundary[j + 1]}
    IN  IF hits = {} THEN -1 ELSE Min(hits)

\* findHeaderEnd(data): the first offset of CR LF CR LF, -1 when there is none
findHeaderEnd(d) ==
    LET hits == {i \in 0..(Len(d) - 4) :
                    /\ At(d, i) = CR     /\ At(d, i + 1) = LF
                    /\ At(d, i + 2) = CR /\ At(d, i + 3) = LF}
    IN  IF hits = {} THEN -1 ELSE Min(hits)

Null == [type |-> "null"]

\* `if (filename)`: a string is truthy when it is defined and not empty
FilenameTruthy(m) == m.hasFilename /\ m.filename # << >>

\* parsePart(data), from the two regex matches on: what it returns
PartResult(dispositionMatch, typeMatch, bodyData) ==
    IF ~dispositionMatch.ok THEN Null
    ELSE IF FilenameTruthy(dispositionMatch)
    THEN [type |-> "file",
          fieldName |-> dispositionMatch.name,
          file |-> [name |-> dispositionMatch.filename,
                    type |-> IF typeMatch.ok THEN Trim(typeMatch.value)
                             ELSE StrOctetStream,
                    size |-> Len(bodyData),
                    buffer |-> bodyData]]
    ELSE [type |-> "field",
          fieldName |-> dispositionMatch.name,
          value |-> Trim(Decode(bodyData))]

\* parsePart(data), from headerEnd on; headers is decoded once
PartFrom(d, headerEnd) ==
    IF headerEnd = -1 THEN Null
    ELSE Only({Only({PartResult(dispositionMatch, typeMatch, bodyData) :
                        dispositionMatch \in {DispositionMatch(headers)},
                        typeMatch \in {TypeMatch(headers)},
                        bodyData \in {Slice(d, headerEnd + 4, Len(d))}}) :
                  headers \in {Decode(Slice(d, 0, headerEnd))}})

\* parsePart(data)
parsePart(d) ==
    Only({PartFrom(partData, headerEndIndex) :
            partData \in {d}, headerEndIndex \in {findHeaderEnd(d)}})

\* A Map is a sequence of <<key, value>> entries in insertion order.
MapHas(m, key) == \E k \in 1..Len(m) : m[k][1] = key
MapGet(m, key) == m[CHOOSE k \in 1..Len(m) : m[k][1] = key][2]
\* Map.prototype.set: an existing key keeps its place
MapSet(m, key, val) ==
    IF MapHas(m, key)
    THEN [k \in 1..Len(m) |-> IF m[k][1] = key THEN <<key, val>> ELSE m[k]]
    ELSE Append(m, <<key, val>>)

\* new TextEncoder().encode(`--${boundary}`)
boundaryBytes(boundary) == <<45, 45>> \o boundary

\* files.get(fieldName)!.push(file), after files.set(fieldName, []) for a new key
PushFile(m, key, file) ==
    MapSet(m, key, Append(IF MapHas(m, key) THEN MapGet(m, key) ELSE << >>, file))

\* a cursor that goes back to the head of the body after a delimiter line
NextStartBack(d, start1) ==
    IF At(d, start1) = CR /\ At(d, start1 + 1) = LF THEN 0 ELSE start1

\* the cursor after the delimiter found at offset `at`, a following CRLF skipped
NextStart(d, start1) ==
    IF At(d, start1) = CR /\ At(d, start1 + 1) = LF THEN start1 + 2 ELSE start1

\* what a loop pass stores for parsePart's result
StoreResult(st, result, start2) ==
    [start |-> start2,
     files |-> IF result.type = "file"
               THEN PushFile(st.files, result.fieldName, result.file)
               ELSE st.files,
     fields |-> IF result.type = "field"
                THEN MapSet(st.fields, result.fieldName, result.value)
                ELSE st.fields]

\* One pass through the body of `while (end < data.length)` that does not
\* break: st = [start, files, fields], at = the boundaryIndex just found.
LoopBody(d, bb, st, at) ==
    Only({StoreResult(st, result, NextStart(d, at + Len(bb))) :
            result \in {IF st.start > 0 THEN parsePart(Slice(d, st.start, at)) ELSE Null}})

\* the loop from state st on, bi = findBoundary(data, boundaryBytes, start)
RECURSIVE ParseFrom(_, _, _)
ParseAt(d, bb, st, bi) ==
    IF ~(0 < Len(d)) \/ bi = -1
    THEN [files |-> st.files, fields |-> st.fields]
    ELSE ParseFrom(d, bb, LoopBody(d, bb, st, bi))

ParseFrom(d, bb, st) == ParseAt(d, bb, st, findBoundary(d, bb, st.start))

\* parseMultipartData(body, boundary) run to its return
parseMultipartData(body, boundary) ==
    ParseFrom(body, boundaryBytes(boundary),
              [start |-> 0, files |-> << >>, fields |-> << >>])

-----------------------------------------------------------------------------
(* Request bodies: standard multipart/form-data framing (CRLF line ends,    *)
(* delimiter lines `--<token>`, terminal `--<token>--`) of described parts. *)

MaxParts == 2

StrImage == <<105, 109, 97, 103, 101>>                    \* "image"
StrOptions == <<111, 112, 116, 105, 111, 110, 115>>       \* "options"
StrOther == <<102>>                                       \* "f"
StrFileName == <<97, 46, 112, 110, 103>>                  \* "a.png"
MimePng == <<105, 109, 97, 103, 101, 47, 112, 110, 103>>        \* "image/png"
MimeJpeg == <<105, 109, 97, 103, 101, 47, 106, 112, 101, 103>>  \* "image/jpeg"
MimeGif == <<105, 109, 97, 103, 101, 47, 103, 105, 102>>        \* "image/gif"
MimeWebp == <<105, 109, 97, 103, 101, 47, 119, 101, 98, 112>>   \* "image/webp"
MimeAvif == <<105, 109, 97, 103, 101, 47, 97, 118, 105, 102>>   \* "image/avif"
MimeBmp == <<105, 109, 97, 103, 101, 47, 98, 109, 112>>         \* "image/bmp"

\* leading bytes of files of the six documented formats
BytesPng == <<137, 80, 78, 71, 13, 10, 26, 10>>
BytesJpeg == <<255, 216, 255, 224>>
BytesGif == <<71, 73, 70, 56, 57, 97>>
BytesWebp == <<82, 73, 70, 70, 0, 0, 0, 0, 87, 69, 66, 80>>
BytesBmp == <<66, 77, 0, 0>>
BytesAvif == <<0, 0, 0, 28, 102, 116, 121, 112, 97, 118, 105, 102>>

BoundaryToken == <<98, 100>>                              \* "bd"

GenDisposition ==           \* `Content-Disposition: form-data; name="`
    <<67, 111, 110, 116, 101, 110, 116, 45, 68, 105, 115, 112, 111, 115, 105,
      116, 105, 111, 110, 58, 32, 102, 111, 114, 109, 45, 100, 97, 116, 97,
      59, 32, 110, 97, 109, 101, 61, 34>>
GenFilename == <<59, 32, 102, 105, 108, 101, 110, 97, 109, 101, 61, 34>>  \* `; filename="`
GenType ==                  \* `Content-Type: `
    <<67, 111, 110, 116, 101, 110, 116, 45, 84, 121, 112, 101, 58, 32>>

\* A part: field name, whether the disposition carries a filename attribute
\* and its value, the declared content type (<< >>: no Content-Type line),
\* whether the header block is closed by a blank line, and the payload.
Part(name, hasFn, fn, ctype, hdrEnd, payload) ==
    [name |-> name, hasFn |-> hasFn, fn |-> fn, ctype |-> ctype,
     hdrEnd |-> hdrEnd, payload |-> payload]

FilePart(name, ctype, payload) == Part(name, TRUE, StrFileName, ctype, TRUE, payload)

PartKinds ==
    { FilePart(StrImage, MimePng, BytesPng),
      FilePart(StrImage, MimeJpeg, BytesJpeg),
      FilePart(StrOther, MimeGif, BytesGif),
      FilePart(StrImage, MimePng, << >>),
      Part(StrImage, TRUE, << >>, MimeGif, TRUE, BytesGif),
      Part(StrOptions, FALSE, << >>, << >>, TRUE, <<32, 120, 255, 9>>),
      Part(StrOptions, FALSE, << >>, << >>, TRUE, <<121>>),
      Part(StrOther, FALSE, << >>, << >>, FALSE, <<122>>) }

PartBytes(p) ==
    Concat(<< GenDisposition, p.name, <<QUOTE>>,
              IF p.hasFn THEN GenFilename \o p.fn \o <<QUOTE>> ELSE << >>,
              IF p.ctype # << >> THEN CRLF \o GenType \o p.ctype ELSE << >>,
              IF p.hdrEnd THEN CRLF \o CRLF ELSE << >>,
              p.payload, CRLF >>)

RECURSIVE FrameParts(_)
FrameParts(ps) ==
    IF ps = << >> THEN << >>
    ELSE boundaryBytes(BoundaryToken) \o CRLF \o PartBytes(Head(ps)) \o FrameParts(Tail(ps))

\* the body of a request carrying parts ps; closed: the terminal delimiter
\* line is present
Frame(ps, closed) ==
    FrameParts(ps) \o
    (IF closed THEN boundaryBytes(BoundaryToken) \o <<45, 45>> \o CRLF ELSE << >>)

SeqsUpTo(S, n) == UNION {[1..k -> S] : k \in 0..n}

\* bodies in which the delimiter does not occur at all
Unframed == { << >>, <<120>>, <<45, 45, 98>>, GenDisposition \o StrImage \o <<QUOTE>> \o CRLF \o CRLF }

-----------------------------------------------------------------------------
(* SpecMultipart: one call of parseMultipartData, one loop pass per step *)

IdleOptions == [none |-> TRUE]

RequestIdle ==
    /\ req = [none |-> TRUE]
    /\ rt = [none |-> TRUE]
    /\ rpc = "idle"
    /\ ctx = [set |-> FALSE]
    /\ resp = [status |-> 0]
    /\ proc = [none |-> TRUE]
    /\ pending = {}
    /\ micro = << >>
    /\ unhandled = FALSE

DimensionsIdle ==
    /\ buf = << >>
    /\ dims = [none |-> TRUE]
    /\ dpc = "idle"

SurfaceIdle ==
    /\ surf = [none |-> TRUE]
    /\ prev = [none |-> TRUE]
    /\ hist = << >>
    /\ fault = FALSE

ProcessIdle ==
    /\ options = IdleOptions
    /\ canvasOk = FALSE
    /\ ppc = "idle"
    /\ trace = << >>

InitMultipart ==
    /\ \/ \E ps \in SeqsUpTo(PartKinds, MaxParts), closed \in BOOLEAN :
            /\ parts = ps
            /\ data = Frame(ps, closed)
       \/ /\ parts = << >>
          /\ data \in Unframed
    /\ token = BoundaryToken
    /\ start = 0
    /\ end = 0
    /\ files = << >>
    /\ fields = << >>
    /\ mpc = "loop"
    /\ ProcessIdle
    /\ DimensionsIdle
    /\ SurfaceIdle
    /\ RequestIdle

SetLoopState(st) ==
    /\ start' = st.start
    /\ files' = st.files
    /\ fields' = st.fields

\* a pass of the while loop that finds a delimiter
ParsePass ==
    /\ mpc = "loop"
    /\ end < Len(data)
    /\ \E boundaryIndex \in {findBoundary(data, boundaryBytes(token), start)} :
        /\ boundaryIndex # -1
        /\ \E st \in {LoopBody(data, boundaryBytes(token),
                                [start |-> start, files |-> files, fields |-> fields],
                                boundaryIndex)} :
                SetLoopState(st)
    /\ UNCHANGED <<parts, data, token, end, mpc>>
    /\ UNCHANGED pvars
    /\ UNCHANGED rvars
    /\ UNCHANGED dvars
    /\ UNCHANGED svars

\* the loop condition fails or the loop breaks: return { files, fields }
ParseReturn ==
    /\ mpc = "loop"
    /\ \/ ~(end < Len(data))
       \/ findBoundary(data, boundaryBytes(token), start) = -1
    /\ mpc' = "done"
    /\ UNCHANGED <<parts, data, token, start, end, files, fields>>
    /\ UNCHANGED pvars
    /\ UNCHANGED rvars
    /\ UNCHANGED dvars
    /\ UNCHANGED svars

NextMultipart == ParsePass \/ ParseReturn

vars == <<parts, data, token, start, end, files, fields, mpc, options, canvasOk, ppc, trace,
          req, rt, rpc, ctx, resp, proc, pending, micro, unhandled,
          buf, dims, dpc, surf, prev, hist, fault>>

SpecMultipart == InitMultipart /\ [][NextMultipart]_vars

-----------------------------------------------------------------------------
(* Claims about the multipart decoder (SpecMultipart) *)

\* the call has returned and the body was the closed framing of `parts`
Decoded == mpc = "done" /\ data = Frame(parts, TRUE)

\* every part has its header-terminating blank line
HeadersClosed == \A k \in 1..Len(parts) : parts[k].hdrEnd

PartNames == {parts[k].name : k \in 1..Len(parts)}

\* the parts of the body that carry a filename attribute / carry none, by name
FilePartsNamed(n) == SelectSeq(parts, LAMBDA p : p.hasFn /\ p.name = n)
TextPartsNamed(n) == SelectSeq(parts, LAMBDA p : ~p.hasFn /\ p.name = n)

FilesNamed(n) == IF MapHas(files, n) THEN MapGet(files, n) ELSE << >>

\* C3: for a valid body with N file parts the decoder returns exactly N file
\* entries, and each entry's buffer and size field have exactly the length of
\* that part's payload (the bytes between the blank line and the CRLF before
\* the next delimiter line).
C3_FileLengths ==
    (Decoded /\ HeadersClosed
        /\ \A k \in 1..Len(parts) : parts[k].hasFn => parts[k].fn # << >>)
    => \A n \in PartNames :
          /\ Len(FilesNamed(n)) = Len(FilePartsNamed(n))
          /\ \A k \in 1..Len(FilesNamed(n)) :
                k <= Len(FilePartsNamed(n)) =>
                   /\ Len(FilesNamed(n)[k].buffer) = Len(FilePartsNamed(n)[k].payload)
                   /\ FilesNamed(n)[k].size = Len(FilePartsNamed(n)[k].payload)

\* C5: a part with a filename attribute, the empty filename included, is
\* decoded as a file part; a part without one is decoded as a text field whose
\* value is the decoded, trimmed payload; no part is classified both ways.
C5_Classification ==
    (Decoded /\ HeadersClosed)
    => \A n \in PartNames :
          /\ Len(FilesNamed(n)) = Len(FilePartsNamed(n))
          /\ MapHas(fields, n) <=> TextPartsNamed(n) # << >>
          /\ MapHas(fields, n) /\ TextPartsNamed(n) # << >> =>
                MapGet(fields, n) =
                    Trim(Decode(TextPartsNamed(n)[Len(TextPartsNamed(n))].payload))

-----------------------------------------------------------------------------
(* JavaScript values of the options object.  Numbers of blur, brightness,  *)
(* contrast and saturation are held in tenths (3 is 0.3), other numbers in *)
(* units.                                                                  *)

Undef == [t |-> "undefined"]
Num(n) == [t |-> "number", v |-> n]
Bool(b) == [t |-> "boolean", v |-> b]
Str(x) == [t |-> "string", v |-> x]
Obj(o) == [t |-> "object", v |-> o]

\* ToBoolean, as `if (x)` and `a || b` apply it
Truthy(x) ==
    CASE x.t = "undefined" -> FALSE
      [] x.t = "number" -> x.v # 0
      [] x.t = "boolean" -> x.v
      [] x.t = "string" -> x.v # ""
      [] x.t = "NaN" -> FALSE
      [] x.t = "object" -> TRUE

\* z.number().min(lo).max(hi).optional()
OptNumber(x, lo, hi) == x.t = "undefined" \/ (x.t = "number" /\ x.v >= lo /\ x.v <= hi)
\* z.boolean().optional()
OptBoolean(x) == x.t \in {"undefined", "boolean"}

\* z.enum([...]).optional()
OptEnum(x, values) == x.t = "undefined" \/ (x.t = "string" /\ x.v \in values)
\* z.number().min(lo)
MinNumber(x, lo) == x.t = "number" /\ x.v >= lo

\* the crop object of imageProcessingSchema
CropObject(c) == c.left >= 0 /\ c.top >= 0 /\ c.width >= 1 /\ c.height >= 1

\* imageProcessingSchema.safeParse(options).success
imageProcessingSchema(o) ==
    /\ OptNumber(o.width, 1, 4000)
    /\ OptNumber(o.height, 1, 4000)
    /\ OptNumber(o.quality, 1, 100)
    /\ OptEnum(o.format, {"jpeg", "png", "webp"})
    /\ OptEnum(o.fit, {"cover", "contain", "fill", "inside", "outside"})
    /\ OptNumber(o.blur, 3, 10000)
    /\ OptBoolean(o.sharpen)
    /\ OptBoolean(o.grayscale)
    /\ OptNumber(o.rotate, -360, 360)
    /\ OptNumber(o.brightness, 1, 30)
    /\ OptNumber(o.contrast, 1, 30)
    /\ OptNumber(o.saturation, 0, 30)
    /\ o.crop.t = "undefined" \/ (o.crop.t = "object" /\ CropObject(o.crop.v))

\* cropSchema.safeParse(options).success
cropSchema(o) ==
    /\ MinNumber(o.left, 0)
    /\ MinNumber(o.top, 0)
    /\ MinNumber(o.width, 1)
    /\ MinNumber(o.height, 1)

\* resizeSchema.safeParse(options).success
resizeSchema(o) ==
    /\ OptNumber(o.width, 1, 4000)
    /\ OptNumber(o.height, 1, 4000)
    /\ OptEnum(o.fit, {"cover", "contain", "fill", "inside", "outside"})

\* options objects a client can send
RawOptions ==
    [width : {Undef, Num(0), Num(800)},
     height : {Undef, Num(600)},
     quality : {Undef},
     format : {Undef},
     fit : {Undef},
     left : {Undef},
     top : {Undef},
     crop : {Undef, Obj([left |-> 0, top |-> 0, width |-> 1, height |-> 1]),
             Obj([left |-> 0, top |-> 0, width |-> 0, height |-> 1])},
     rotate : {Undef, Num(0), Num(90)},
     blur : {Undef, Num(3)},
     sharpen : {Undef, Bool(FALSE), Bool(TRUE)},
     grayscale : {Undef, Bool(FALSE), Bool(TRUE)},
     brightness : {Undef, Num(10)},
     contrast : {Undef, Num(10)},
     saturation : {Undef, Num(0), Num(10), Num(31)}]

ValidOptions == {o \in RawOptions : imageProcessingSchema(o)}

-----------------------------------------------------------------------------
(* ImageProcessor.process *)

\* mutation of ProcessOrder: sharpen applied before blur
ProcessOrderSwapped ==
    <<"resize", "crop", "rotate", "sharpen", "blur", "grayscale", "brightness",
      "contrast", "saturation">>

\* the stage statements of process(), top to bottom
ProcessOrder ==
    <<"resize", "crop", "rotate", "blur", "sharpen", "grayscale", "brightness",
      "contrast", "saturation">>

Stages == {ProcessOrder[k] : k \in 1..Len(ProcessOrder)}

\* the `if (...)` in front of each stage
StageCondition(o, s) ==
    CASE s = "resize" -> Truthy(o.width) \/ Truthy(o.height)
      [] s = "crop" -> Truthy(o.crop)
      [] s = "rotate" -> Truthy(o.rotate)
      [] s = "blur" -> Truthy(o.blur)
      [] s = "sharpen" -> Truthy(o.sharpen)
      [] s = "grayscale" -> Truthy(o.grayscale)
      [] s = "brightness" -> Truthy(o.brightness)
      [] s = "contrast" -> Truthy(o.contrast)
      [] s = "saturation" -> Truthy(o.saturation)

\* stages that make a new canvas and throw when it yields no 2D context
Throwing == {"resize", "crop", "rotate"}

\* the stages process(o) runs on a processor with a canvas, in order
StagesRun(o) == SelectSeq(ProcessOrder, LAMBDA s : StageCondition(o, s))

IndexOf(seq, x) == CHOOSE k \in 1..Len(seq) : seq[k] = x

\* control position after the statement of stage s
After(s) ==
    IF IndexOf(ProcessOrder, s) = Len(ProcessOrder) THEN "done"
    ELSE ProcessOrder[IndexOf(ProcessOrder, s) + 1]

MultipartIdle ==
    /\ parts = << >>
    /\ data = << >>
    /\ token = << >>
    /\ start = 0
    /\ end = 0
    /\ files = << >>
    /\ fields = << >>
    /\ mpc = "idle"

InitProcess ==
    /\ options \in ValidOptions
    /\ canvasOk \in BOOLEAN
    /\ ppc = "start"
    /\ trace = << >>
    /\ MultipartIdle
    /\ RequestIdle
    /\ DimensionsIdle
    /\ SurfaceIdle

\* await this.initialize(); if (!this.canvas) return this
ProcessInitialize ==
    /\ ppc = "start"
    /\ ppc' = IF canvasOk THEN ProcessOrder[1] ELSE "done"
    /\ UNCHANGED <<options, canvasOk, trace>>
    /\ UNCHANGED mvars
    /\ UNCHANGED rvars
    /\ UNCHANGED dvars
    /\ UNCHANGED svars

\* the `if` of stage s: the stage method is called, or the statement is skipped
StageTest(s) ==
    /\ ppc = s
    /\ IF StageCondition(options, s)
       THEN /\ trace' = Append(trace, <<"start", s>>)
            /\ ppc' = "in"
       ELSE /\ trace' = trace
            /\ ppc' = After(s)
    /\ UNCHANGED <<options, canvasOk>>
    /\ UNCHANGED mvars
    /\ UNCHANGED rvars
    /\ UNCHANGED dvars
    /\ UNCHANGED svars

RunningStage == trace[Len(trace)][2]

\* the awaited stage method returns
StageReturn ==
    /\ ppc = "in"
    /\ trace' = Append(trace, <<"end", RunningStage>>)
    /\ ppc' = After(RunningStage)
    /\ UNCHANGED <<options, canvasOk>>
    /\ UNCHANGED mvars
    /\ UNCHANGED rvars
    /\ UNCHANGED dvars
    /\ UNCHANGED svars

\* the awaited stage method throws (no 2D context for its new canvas):
\* process rejects
StageThrow ==
    /\ ppc = "in"
    /\ RunningStage \in Throwing
    /\ trace' = Append(trace, <<"throw", RunningStage>>)
    /\ ppc' = "rejected"
    /\ UNCHANGED <<options, canvasOk>>
    /\ UNCHANGED mvars
    /\ UNCHANGED rvars
    /\ UNCHANGED dvars
    /\ UNCHANGED svars

ResizeStage == StageTest("resize")
CropStage == StageTest("crop")
RotateStage == StageTest("rotate")
BlurStage == StageTest("blur")
SharpenStage == StageTest("sharpen")
GrayscaleStage == StageTest("grayscale")
BrightnessStage == StageTest("brightness")
ContrastStage == StageTest("contrast")
SaturationStage == StageTest("saturation")

NextProcess ==
    \/ ProcessInitialize
    \/ ResizeStage
    \/ CropStage
    \/ RotateStage
    \/ BlurStage
    \/ SharpenStage
    \/ GrayscaleStage
    \/ BrightnessStage
    \/ ContrastStage
    \/ SaturationStage
    \/ StageReturn
    \/ StageThrow

SpecProcess == InitProcess /\ [][NextProcess]_vars

-----------------------------------------------------------------------------
(* Claims about ImageProcessor.process (SpecProcess) *)

\* the order the pipeline is specified to have
SpecifiedOrder ==
    <<"resize", "crop", "rotate", "blur", "sharpen", "grayscale", "brightness",
      "contrast", "saturation">>

Rank(s) == IndexOf(SpecifiedOrder, s)

\* C1: process applies the requested stages in the order resize, crop, rotate,
\* blur, sharpen, grayscale, brightness, contrast, saturation: a stage that
\* starts after another one has a later place in this list (so none runs
\* twice), and every stage started earlier has returned before it starts.
C1_StageOrder ==
    \A i, j \in 1..Len(trace) :
        (i < j /\ trace[i][1] = "start" /\ trace[j][1] = "start")
        => /\ Rank(trace[i][2]) < Rank(trace[j][2])
           /\ \E k \in (i + 1)..(j - 1) : trace[k] = <<"end", trace[i][2]>>

\* all nine stages have run to their end
C1_Witness ==
    /\ ppc = "done"
    /\ Len(trace) = 18
    /\ \A s \in Stages : \E k \in 1..Len(trace) : trace[k] = <<"end", s>>

Ran(s) == \E k \in 1..Len(trace) : trace[k] = <<"start", s>>

\* an option of the validated request is present: a number is given (any value
\* of its range, 0 included), a boolean is true, an object is given
Present(x) == IF x.t = "boolean" THEN x.v ELSE x.t # "undefined"

StagePresent(o, s) ==
    CASE s = "resize" -> Present(o.width) \/ Present(o.height)
      [] s = "crop" -> Present(o.crop)
      [] s = "rotate" -> Present(o.rotate)
      [] s = "blur" -> Present(o.blur)
      [] s = "sharpen" -> Present(o.sharpen)
      [] s = "grayscale" -> Present(o.grayscale)
      [] s = "brightness" -> Present(o.brightness)
      [] s = "contrast" -> Present(o.contrast)
      [] s = "saturation" -> Present(o.saturation)

\* C2: on a processor with a canvas, process runs a stage exactly when its
\* option is present in the validated request (saturation = 0 included), and
\* runs no stage for an absent option.
C2_StageIffPresent ==
    (ppc = "done" /\ canvasOk) => \A s \in Stages : Ran(s) <=> StagePresent(options, s)

-----------------------------------------------------------------------------
(* The requests: headers, documents, parts *)

\* the literal occurs in s at offset i, case-sensitively
ExactAt(s, i, lit) ==
    /\ i + Len(lit) <= Len(s)
    /\ \A k \in 1..Len(lit) : s[i + k] = lit[k]

\* String.prototype.includes
Includes(s, lit) == \E i \in 0..(Len(s) - Len(lit)) : ExactAt(s, i, lit)

LitMultipart == 
    <<109, 117, 108, 116, 105, 112, 97, 114, 116, 47, 102, 111, 114, 109, 45,
      100, 97, 116, 97>>
LitBoundaryEq == <<98, 111, 117, 110, 100, 97, 114, 121, 61>>

\* contentType.match(/boundary=([^;]+)/): the offsets where the pattern matches
BoundaryHits(s) ==
    {i \in 0..(Len(s) - Len(LitBoundaryEq)) :
        /\ ExactAt(s, i, LitBoundaryEq)
        /\ i + Len(LitBoundaryEq) < Len(s)
        /\ s[i + Len(LitBoundaryEq) + 1] # SEMI}

\* group 1 of the leftmost match
BoundaryGroup(s, i) ==
    SubSeq(s, i + Len(LitBoundaryEq) + 1, SpanNot(s, i + Len(LitBoundaryEq), {SEMI}))

\* boundaryMatch[1].replace(/"/g, '')
StripQuotes(s) == SelectSeq(s, LAMBDA c : c # QUOTE)

HdrMultipart == 
    <<109, 117, 108, 116, 105, 112, 97, 114, 116, 47, 102, 111, 114, 109, 45,
      100, 97, 116, 97, 59, 32, 98, 111, 117, 110, 100, 97, 114, 121, 61, 98,
      100>>
HdrMultipartQuoted == 
    <<109, 117, 108, 116, 105, 112, 97, 114, 116, 47, 102, 111, 114, 109, 45,
      100, 97, 116, 97, 59, 32, 98, 111, 117, 110, 100, 97, 114, 121, 61, 34,
      98, 100, 34>>
HdrNoBoundary == 
    <<109, 117, 108, 116, 105, 112, 97, 114, 116, 47, 102, 111, 114, 109, 45,
      100, 97, 116, 97>>
HdrJson == 
    <<97, 112, 112, 108, 105, 99, 97, 116, 105, 111, 110, 47, 106, 115, 111,
      110>>

\* c.req.header('content-type'): undefined when the request has none
NoHeader == [present |-> FALSE]
Header(h) == [present |-> TRUE, v |-> h]

\* documents sent as the options field or as a JSON body
JsonEmpty == <<123, 125>>
JsonConvert == 
    <<123, 34, 119, 105, 100, 116, 104, 34, 58, 56, 48, 48, 44, 34, 102, 111,
      114, 109, 97, 116, 34, 58, 34, 106, 112, 101, 103, 34, 44, 34, 113,
      117, 97, 108, 105, 116, 121, 34, 58, 56, 48, 125>>
JsonSaturation == 
    <<123, 34, 115, 97, 116, 117, 114, 97, 116, 105, 111, 110, 34, 58, 48,
      125>>
JsonBadWidth == <<123, 34, 119, 105, 100, 116, 104, 34, 58, 48, 125>>
JsonCrop == 
    <<123, 34, 108, 101, 102, 116, 34, 58, 48, 44, 34, 116, 111, 112, 34, 58,
      48, 44, 34, 119, 105, 100, 116, 104, 34, 58, 49, 44, 34, 104, 101, 105,
      103, 104, 116, 34, 58, 49, 125>>
JsonBroken == <<123, 34, 119, 105, 100, 116, 104, 34, 58>>

\* an options object with no field given
NoOptions ==
    [width |-> Undef, height |-> Undef, quality |-> Undef, format |-> Undef,
     fit |-> Undef, left |-> Undef, top |-> Undef, crop |-> Undef,
     rotate |-> Undef, blur |-> Undef, sharpen |-> Undef, grayscale |-> Undef,
     brightness |-> Undef, contrast |-> Undef, saturation |-> Undef]

\* JSON.parse on the texts the requests of this model carry: the five
\* documents above parse to their objects, every other text (the broken
\* document, a multipart body, which starts with `--`) is a SyntaxError.
JsonParse(text) ==
    CASE text = JsonEmpty -> [ok |-> TRUE, v |-> NoOptions]
      [] text = JsonConvert ->
            [ok |-> TRUE,
             v |-> [NoOptions EXCEPT !.width = Num(800), !.format = Str("jpeg"),
                                     !.quality = Num(80)]]
      [] text = JsonSaturation ->
            [ok |-> TRUE, v |-> [NoOptions EXCEPT !.saturation = Num(0)]]
      [] text = JsonBadWidth ->
            [ok |-> TRUE, v |-> [NoOptions EXCEPT !.width = Num(0)]]
      [] text = JsonCrop ->
            [ok |-> TRUE,
             v |-> [NoOptions EXCEPT !.left = Num(0), !.top = Num(0),
                                     !.width = Num(1), !.height = Num(1)]]
      [] OTHER -> [ok |-> FALSE]

NaN == [t |-> "NaN"]

IsDigit(c) == c >= 48 /\ c <= 57

RECURSIVE DigitsValue(_)
DigitsValue(ds) ==
    IF ds = << >> THEN 0
    ELSE 10 * DigitsValue(SubSeq(ds, 1, Len(ds) - 1)) + (ds[Len(ds)] - 48)

\* offset after the leading decimal digits of s that start at offset i
SpanDigits(s, i) == Min({k \in i..Len(s) : k = Len(s) \/ ~IsDigit(s[k + 1])})

\* parseInt(s) on an unsigned decimal text: leading white space is skipped,
\* the longest run of digits is read, NaN when there is none
ParseInt(s) ==
    IF SpanDigits(s, SkipSpace(s, 0)) = SkipSpace(s, 0) THEN NaN
    ELSE Num(DigitsValue(SubSeq(s, SkipSpace(s, 0) + 1, SpanDigits(s, SkipSpace(s, 0)))))

Str80 == <<56, 48>>
Str1 == <<49>>
Str500 == <<53, 48, 48>>
Str800 == <<56, 48, 48>>
StrWidth == <<119, 105, 100, 116, 104>>
StrHeight == <<104, 101, 105, 103, 104, 116>>
StrFit == <<102, 105, 116>>
StrLeft == <<108, 101, 102, 116>>
StrTop == <<116, 111, 112>>
MimeText == <<116, 101, 120, 116, 47, 112, 108, 97, 105, 110>>

-----------------------------------------------------------------------------
(* Errors and responses *)

\* new APIError(type, message, statusCode); messages are given in English
APIError(type, message, statusCode) ==
    [api |-> TRUE, type |-> type, message |-> message, statusCode |-> statusCode]

\* any other Error (SyntaxError of JSON.parse, Error of a canvas call)
PlainError(message) ==
    [api |-> FALSE, type |-> "Error", message |-> message, statusCode |-> 0]

validationError == APIError("VALIDATION_ERROR", "parameter validation failed", 400)
fileNotFound == APIError("FILE_NOT_FOUND", "please upload an image file", 400)
invalidFileType == APIError("INVALID_FILE_TYPE", "unsupported file type", 400)
invalidFormat == APIError("INVALID_FORMAT", "unsupported format", 400)
invalidDimensions == APIError("INVALID_DIMENSIONS", "invalid image dimensions", 400)
internalError == APIError("INTERNAL_ERROR", "internal server error", 500)

SyntaxError == PlainError("Unexpected token in JSON")
ContextError == PlainError("Failed to get 2D rendering context")
EncodeError == PlainError("convertToBlob failed")

\* c.json({ error, type, ... }, status); type is "" where the body has no type
ErrorResponse(status, error, type) ==
    [status |-> status, kind |-> "error", error |-> error, type |-> type]

\* c.json(formatErrorResponse(error), error.statusCode)
formatErrorResponse(error) == ErrorResponse(error.statusCode, error.message, error.type)

\* handleError(c, error); no error of these routes is a ZodError (safeParse
\* is used), so the `issues` branch is not taken
handleError(error) ==
    IF error.api THEN formatErrorResponse(error)
    ELSE IF error.message \in {"Input file contains unsupported image format",
                               "Input buffer contains unsupported image format"}
    THEN formatErrorResponse(invalidFileType)
    ELSE IF error.message = "Expected positive integer"
    THEN formatErrorResponse(invalidDimensions)
    ELSE formatErrorResponse(internalError)

\* app.onError: an error thrown past the route's own handlers
onError == ErrorResponse(500, "internal server error", "")

\* c.body(processedBuffer) after c.header('Content-Type', contentType)
ImageResponse(contentType, out) ==
    [status |-> 200, kind |-> "image", contentType |-> contentType, body |-> out]

\* c.json(formatSuccessResponse(data))
formatSuccessResponse(d) == [status |-> 200, kind |-> "success", data |-> d]

-----------------------------------------------------------------------------
(* Upload middleware *)

\* 10 * 1024 * 1024 in the code; scaled so that a file of the model exceeds it
MaxFileSize == 16

DEFAULT_OPTIONS ==
    [maxFileSize |-> MaxFileSize,
     allowedTypes |-> {MimeJpeg, MimePng, MimeGif, MimeWebp, MimeAvif, MimeBmp},
     maxFiles |-> 5]

\* the options the routes pass to uploadMiddleware
RouteUploadOptions ==
    [maxFileSize |-> MaxFileSize,
     allowedTypes |-> {MimeJpeg, MimePng, MimeGif, MimeWebp, MimeAvif, MimeBmp},
     maxFiles |-> 1]

\* { ...DEFAULT_OPTIONS, ...options }: every key is given by the routes
opts ==
    [k \in DOMAIN DEFAULT_OPTIONS |->
        IF k \in DOMAIN RouteUploadOptions THEN RouteUploadOptions[k]
        ELSE DEFAULT_OPTIONS[k]]

\* a table whose last signature is the single byte "B"
SignaturesLoose ==
    << [format |-> "jpeg", signature |-> <<255, 216, 255>>],
       [format |-> "png", signature |-> <<137, 80, 78, 71>>],
       [format |-> "gif", signature |-> <<71, 73, 70>>],
       [format |-> "webp", signature |-> <<82, 73, 70, 70>>],
       [format |-> "bmp", signature |-> <<66>>] >>

\* the signatures of isValidImageFormat, in their order
Signatures ==
    << [format |-> "jpeg", signature |-> <<255, 216, 255>>],
       [format |-> "png", signature |-> <<137, 80, 78, 71>>],
       [format |-> "gif", signature |-> <<71, 73, 70>>],
       [format |-> "webp", signature |-> <<82, 73, 70, 70>>],
       [format |-> "bmp", signature |-> <<66, 77>>] >>

\* signature.every((byte, index) => imageData[index] === byte)
SignatureMatches(imageData, signature) ==
    \A index \in 0..(Len(signature) - 1) : At(imageData, index) = signature[index + 1]

\* ImageProcessor.isValidImageFormat(imageData)
isValidImageFormat(imageData) ==
    \E k \in 1..Len(Signatures) : SignatureMatches(imageData, Signatures[k].signature)

\* validateFile(file, o), options written o: the error message, or "null"
validateFile(file, o) ==
    IF o.maxFileSize # 0 /\ file.size > o.maxFileSize
    THEN "file size over limit"
    ELSE IF ~(file.type \in o.allowedTypes)
    THEN "unsupported file type"
    ELSE IF ~isValidImageFormat(file.buffer)
    THEN "invalid image format"
    ELSE "null"

\* the files of the Map in iteration order: keys in insertion order, each
\* key's files in push order
AllFiles(filesMap) == Concat([k \in 1..Len(filesMap) |-> filesMap[k][2]])

\* the first error the validation loop meets, or "null"
FirstError(all, o) ==
    IF \A k \in 1..Len(all) : validateFile(all[k], o) = "null" THEN "null"
    ELSE validateFile(all[Min({k \in 1..Len(all) :
                                validateFile(all[k], o) # "null"})], o)

\* where the request goes after the upload middleware
AfterUpload == IF req.route = "batch" THEN "validator" ELSE "handler"

Respond(r) ==
    /\ resp' = r
    /\ rpc' = "done"

\* contentType check and boundary extraction
UploadHeader ==
    /\ rpc = "upload"
    /\ IF ~req.contentType.present \/ ~Includes(req.contentType.v, LitMultipart)
       THEN /\ rpc' = AfterUpload
            /\ resp' = resp
       ELSE IF BoundaryHits(req.contentType.v) = {}
       THEN Respond(ErrorResponse(400, "invalid Content-Type", ""))
       ELSE /\ rpc' = "body"
            /\ resp' = resp
    /\ UNCHANGED <<req, rt, ctx, proc, pending, micro, unhandled>>
    /\ UNCHANGED mvars
    /\ UNCHANGED pvars
    /\ UNCHANGED dvars
    /\ UNCHANGED svars

\* const boundary = boundaryMatch[1].replace(/"/g, '')
Boundary(contentType) ==
    StripQuotes(BoundaryGroup(contentType, Min(BoundaryHits(contentType))))

\* from the parsed body on: validation loop, count check, c.set, next()
UploadValidate(parsed) ==
    IF FirstError(AllFiles(parsed.files), opts) # "null"
    THEN /\ Respond(ErrorResponse(400, FirstError(AllFiles(parsed.files), opts), ""))
         /\ ctx' = ctx
    ELSE IF opts.maxFiles # 0 /\ Len(AllFiles(parsed.files)) > opts.maxFiles
    THEN /\ Respond(ErrorResponse(400, "file count over limit", ""))
         /\ ctx' = ctx
    ELSE /\ ctx' = [set |-> TRUE, files |-> parsed.files, fields |-> parsed.fields,
                    uploadedFiles |-> AllFiles(parsed.files)]
         /\ rpc' = AfterUpload
         /\ resp' = resp

\* await c.req.arrayBuffer() and the rest of the try block; a body that
\* cannot be read makes arrayBuffer() reject, which the catch answers
UploadBody ==
    /\ rpc = "body"
    /\ \E readOk \in BOOLEAN :
        IF readOk
        THEN UploadValidate(parseMultipartData(req.body, Boundary(req.contentType.v)))
        ELSE /\ Respond(ErrorResponse(500, "file upload failed", ""))
             /\ ctx' = ctx
    /\ UNCHANGED <<req, rt, proc, pending, micro, unhandled>>
    /\ UNCHANGED mvars
    /\ UNCHANGED pvars
    /\ UNCHANGED dvars
    /\ UNCHANGED svars

\* c.get('uploadedFiles') || []
getUploadedFiles == IF ctx.set THEN ctx.uploadedFiles ELSE << >>

NoFile == [found |-> FALSE]

\* getUploadedFile(c, fieldName)
getUploadedFile(fieldName) ==
    IF ~ctx.set THEN NoFile
    ELSE IF ~MapHas(ctx.files, fieldName) THEN NoFile
    ELSE IF Len(MapGet(ctx.files, fieldName)) > 0
    THEN [found |-> TRUE, file |-> MapGet(ctx.files, fieldName)[1]]
    ELSE NoFile

NoField == [found |-> FALSE]

\* getFormField(c, fieldName): fields?.get(fieldName) || null
getFormField(fieldName) ==
    IF ~ctx.set THEN NoField
    ELSE IF ~MapHas(ctx.fields, fieldName) THEN NoField
    ELSE IF MapGet(ctx.fields, fieldName) = << >> THEN NoField
    ELSE [found |-> TRUE, v |-> MapGet(ctx.fields, fieldName)]

-----------------------------------------------------------------------------
(* ImageProcessor: the object, header parsing, initialize, process, toBuffer *)

\* the signatures of detectFormat, in their order
DetectSignatures ==
    << [format |-> "jpeg", signature |-> <<255, 216, 255>>],
       [format |-> "png", signature |-> <<137, 80, 78, 71>>],
       [format |-> "gif", signature |-> <<71, 73, 70>>],
       [format |-> "webp", signature |-> <<82, 73, 70, 70>>],
       [format |-> "bmp", signature |-> <<66, 77>>] >>

\* the entries of detectFormat's table that match
DetectMatches(imageData) ==
    {k \in 1..Len(DetectSignatures) :
        SignatureMatches(imageData, DetectSignatures[k].signature)}

\* detectFormat(): the first signature that matches
detectFormat(imageData) ==
    IF DetectMatches(imageData) # {}
    THEN DetectSignatures[Min(DetectMatches(imageData))].format
    ELSE "unknown"

\* ImageProcessor.getMimeType(format), on lower-case format names
getMimeType(format) ==
    CASE format \in {"jpeg", "jpg"} -> MimeJpeg
      [] format = "png" -> MimePng
      [] format = "gif" -> MimeGif
      [] format = "webp" -> MimeWebp
      [] format = "bmp" -> MimeBmp
      [] OTHER -> StrOctetStream

SUPPORTED_FORMATS == {"jpeg", "png", "webp"}
SUPPORTED_FILTERS == {"grayscale", "blur", "sharpen"}
validateImageFormat(format) == format \in SUPPORTED_FORMATS
validateFilterType(filterType) == filterType \in SUPPORTED_FILTERS

Size(w, h) == [src |-> "header", width |-> w, height |-> h]

\* { width: 100, height: 100 }
DefaultSize == Size(100, 100)

\* (b3 << 24) | (b2 << 16) | (b1 << 8) | b0 on bytes: a signed 32-bit integer
Int32(b3, b2, b1, b0) ==
    (IF b3 >= 128 THEN b3 - 256 ELSE b3) * 16777216 + b2 * 65536 + b1 * 256 + b0

\* (hi << 8) | lo on bytes
Int16(hi, lo) == hi * 256 + lo

Abs(n) == IF n < 0 THEN 0 - n ELSE n

extractPngInfo(d) ==
    IF Len(d) < 24 THEN DefaultSize
    ELSE Size(Int32(At(d, 16), At(d, 17), At(d, 18), At(d, 19)),
              Int32(At(d, 20), At(d, 21), At(d, 22), At(d, 23)))

\* the offsets at which the scan for a SOF0, SOF1 or SOF2 marker stops
SofOffsets(d) ==
    {i \in 2..(Len(d) - 10) : At(d, i) = 255 /\ At(d, i + 1) \in {192, 193, 194}}

JpegSizeAt(d, i) ==
    Size(Int16(At(d, i + 7), At(d, i + 8)), Int16(At(d, i + 5), At(d, i + 6)))

extractJpegInfo(d) ==
    IF SofOffsets(d) = {} THEN DefaultSize ELSE JpegSizeAt(d, Min(SofOffsets(d)))

extractGifInfo(d) ==
    IF Len(d) < 10 THEN DefaultSize
    ELSE Size(Int16(At(d, 7), At(d, 6)), Int16(At(d, 9), At(d, 8)))

extractBmpInfo(d) ==
    IF Len(d) < 26 THEN DefaultSize
    ELSE Size(Int32(At(d, 21), At(d, 20), At(d, 19), At(d, 18)),
              Abs(Int32(At(d, 25), At(d, 24), At(d, 23), At(d, 22))))

\* ((lo | (hi << 8)) & 0x3FFF) + 1
Vp8Dimension(lo, hi) == (Int16(hi, lo) % 16384) + 1

extractWebpInfo(d) ==
    IF Len(d) < 30 THEN DefaultSize
    ELSE IF At(d, 12) = 86 /\ At(d, 13) = 80 /\ At(d, 14) = 56 /\ At(d, 15) = 32
    THEN Size(Vp8Dimension(At(d, 26), At(d, 27)), Vp8Dimension(At(d, 28), At(d, 29)))
    ELSE DefaultSize

extractImageInfo(d) ==
    CASE detectFormat(d) = "png" -> extractPngInfo(d)
      [] detectFormat(d) = "jpeg" -> extractJpegInfo(d)
      [] detectFormat(d) = "gif" -> extractGifInfo(d)
      [] detectFormat(d) = "bmp" -> extractBmpInfo(d)
      [] detectFormat(d) = "webp" -> extractWebpInfo(d)
      [] OTHER -> DefaultSize

\* imageBitmap.width and imageBitmap.height: the decoder's figures, which
\* the model does not compute
BitmapSize == [src |-> "bitmap", width |-> 0, height |-> 0]

\* ImageProcessor.create(imageData). canvas, ctx: the fields are not null;
\* drawn: the source image has been drawn on the canvas; ops: the transforms
\* applied to the canvas since; decodes: calls of createImageBitmap; blob: the
\* surface convertToBlob was called on.
create(imageData) ==
    [imageData |-> imageData, canvas |-> FALSE, ctx |-> FALSE, drawn |-> FALSE,
     ops |-> << >>, decodes |-> 0, original |-> Size(0, 0), blob |-> << >>]

\* initialize() from the point where createImageBitmap has settled
InitializeResume(p) ==
    IF ~rt.decodable
    THEN [p EXCEPT !.original = extractImageInfo(p.imageData)]
    ELSE IF ~rt.ctx
    THEN [p EXCEPT !.canvas = TRUE, !.ctx = FALSE, !.drawn = FALSE, !.ops = << >>,
                   !.original = extractImageInfo(p.imageData)]
    ELSE [p EXCEPT !.canvas = TRUE, !.ctx = TRUE, !.drawn = TRUE, !.ops = << >>,
                   !.original = BitmapSize]

\* initialize() up to its await, or to its end where it does not await
InitializeStart(p) ==
    IF p.canvas THEN p
    ELSE IF rt.api THEN [p EXCEPT !.decodes = @ + 1]
    ELSE [p EXCEPT !.original = extractImageInfo(p.imageData)]

\* initialize() awaits createImageBitmap
InitializeAwaits(p) == ~p.canvas /\ rt.api

\* await this.initialize() with nothing else running
initialize(p) ==
    IF InitializeAwaits(p) THEN InitializeResume(InitializeStart(p))
    ELSE InitializeStart(p)

\* getInfo() after initialize
Info(p) ==
    [width |-> p.original.width, height |-> p.original.height, src |-> p.original.src,
     format |-> detectFormat(p.imageData), size |-> Len(p.imageData),
     channels |-> 4, hasAlpha |-> TRUE]

\* a stage method on an initialized processor: skipped without canvas and
\* context, else the transform is applied to the canvas
ApplyStage(p, s) ==
    IF ~p.canvas \/ ~p.ctx THEN p ELSE [p EXCEPT !.ops = Append(@, s)]

RECURSIVE ApplyStages(_, _)
ApplyStages(p, ss) ==
    IF ss = << >> THEN p ELSE ApplyStages(ApplyStage(p, Head(ss)), Tail(ss))

\* a stage method can throw: it has a canvas and a context to work on and
\* makes a new canvas, whose getContext can return null
CanThrow(p, s) == p.canvas /\ p.ctx /\ s \in Throwing

\* process(options) on an initialized processor q; failAt = 0, or the place
\* in StagesRun(o) of the stage that throws
ProcessStages(q, o, failAt) ==
    IF ~q.canvas THEN [threw |-> FALSE, p |-> q]
    ELSE IF failAt \in 1..Len(StagesRun(o)) /\ CanThrow(q, StagesRun(o)[failAt])
    THEN [threw |-> TRUE, p |-> ApplyStages(q, SubSeq(StagesRun(o), 1, failAt - 1))]
    ELSE [threw |-> FALSE, p |-> ApplyStages(q, StagesRun(o))]

\* await processor.process(options)
process(p, o, failAt) == ProcessStages(initialize(p), o, failAt)

\* what canvas.convertToBlob({ type, quality }) encodes
Encoded(format, quality, q) ==
    [kind |-> "encoded", format |-> format, quality |-> quality,
     drawn |-> q.drawn, ops |-> q.ops]

\* toBuffer returns this.imageData
Original(imageData) == [kind |-> "original", bytes |-> imageData]

\* toBuffer(format, quality) on an initialized processor q; encodeOk: the
\* platform's convertToBlob fulfils
ToBufferFrom(q, format, quality, encodeOk) ==
    IF q.canvas
    THEN IF encodeOk THEN [threw |-> FALSE, out |-> Encoded(format, quality, q)]
         ELSE [threw |-> TRUE, out |-> << >>]
    ELSE [threw |-> FALSE, out |-> Original(q.imageData)]

\* await processor.toBuffer(format, quality)
toBuffer(p, format, quality, encodeOk) ==
    ToBufferFrom(initialize(p), format, quality, encodeOk)

\* the info of ImageProcessor.create(processedBuffer): of the original bytes,
\* or of what the platform encoded
OutputInfo(out) ==
    IF out.kind = "original" THEN Info(initialize(create(out.bytes)))
    ELSE [width |-> 0, height |-> 0, src |-> "encoder", format |-> out.format,
          size |-> 0, channels |-> 4, hasAlpha |-> TRUE]

-----------------------------------------------------------------------------
(* Route handlers *)

\* options.format || 'png'
OutputFormat(o) == IF Truthy(o.format) THEN o.format.v ELSE "png"

\* options.quality ? options.quality / 100 : 0.8, held in hundredths
OutputQuality(o) == IF Truthy(o.quality) THEN o.quality ELSE Num(80)

\* c.body(processedBuffer) with the X-Image-* headers of /process
InfoImageResponse(contentType, out, info) ==
    [status |-> 200, kind |-> "image", contentType |-> contentType, body |-> out,
     info |-> info]

\* /process from the end of toBuffer on
ProcessRespond(tb, o) ==
    IF tb.threw THEN handleError(EncodeError)
    ELSE InfoImageResponse(getMimeType(OutputFormat(o)), tb.out, OutputInfo(tb.out))

\* /process from the end of processor.process on
ProcessEncode(pr, o, encodeOk) ==
    IF pr.threw THEN handleError(ContextError)
    ELSE ProcessRespond(toBuffer(pr.p, OutputFormat(o), OutputQuality(o), encodeOk), o)

\* /process from JSON.parse on
ProcessParsed(file, parsed, failAt, encodeOk) ==
    IF ~parsed.ok THEN handleError(validationError)
    ELSE IF ~imageProcessingSchema(parsed.v) THEN handleError(validationError)
    ELSE ProcessEncode(process(create(file.buffer), parsed.v, failAt), parsed.v, encodeOk)

\* the response of the /process handler under asyncHandler
ProcessOutcome(file, optionsStr, failAt, encodeOk) ==
    IF ~file.found THEN handleError(fileNotFound)
    ELSE IF ~optionsStr.found THEN handleError(validationError)
    ELSE ProcessParsed(file.file, JsonParse(optionsStr.v), failAt, encodeOk)

UnchangedByHandler ==
    /\ UNCHANGED <<req, rt, ctx>>
    /\ UNCHANGED mvars
    /\ UNCHANGED pvars
    /\ UNCHANGED dvars
    /\ UNCHANGED svars

\* POST /process
ProcessRoute ==
    /\ rpc = "handler"
    /\ req.route = "process"
    /\ \E failAt \in 0..Len(ProcessOrder), encodeOk \in BOOLEAN :
        Respond(ProcessOutcome(getUploadedFile(StrImage), getFormField(StrOptions),
                               failAt, encodeOk))
    /\ UNCHANGED <<proc, pending, micro, unhandled>>
    /\ UnchangedByHandler

InfoOutcome(file) ==
    IF ~file.found THEN handleError(fileNotFound)
    ELSE formatSuccessResponse(
            [original |-> [name |-> file.file.name, type |-> file.file.type,
                           size |-> file.file.size],
             image |-> Info(initialize(create(file.file.buffer)))])

\* POST /info
InfoRoute ==
    /\ rpc = "handler"
    /\ req.route = "info"
    /\ Respond(InfoOutcome(getUploadedFile(StrImage)))
    /\ UNCHANGED <<proc, pending, micro, unhandled>>
    /\ UnchangedByHandler

\* c.req.query(name) || fallback
QueryOr(fallback) ==
    IF req.query.present /\ req.query.v # << >> THEN req.query.v ELSE fallback

ConvertRespond(tb, format) ==
    IF tb.threw THEN handleError(EncodeError)
    ELSE ImageResponse(getMimeType(format), tb.out)

\* quality = parseInt(...) / 100 is held in hundredths
ConvertOutcome(format, file, encodeOk) ==
    IF ~validateImageFormat(format) THEN handleError(invalidFormat)
    ELSE IF ~file.found THEN handleError(fileNotFound)
    ELSE ConvertRespond(toBuffer(create(file.file.buffer), format,
                                 ParseInt(QueryOr(Str80)), encodeOk), format)

\* POST /convert/:format
ConvertRoute ==
    /\ rpc = "handler"
    /\ req.route = "convert"
    /\ \E encodeOk \in BOOLEAN :
        Respond(ConvertOutcome(req.param, getUploadedFile(StrImage), encodeOk))
    /\ UNCHANGED <<proc, pending, micro, unhandled>>
    /\ UnchangedByHandler

FilterRespond(tb, file) ==
    IF tb.threw THEN handleError(EncodeError)
    ELSE ImageResponse(file.type, tb.out)

\* the filter methods make no new canvas; the value of sigma is not held
FilterOutcome(filterType, file, encodeOk) ==
    IF ~validateFilterType(filterType) THEN handleError(invalidFormat)
    ELSE IF ~file.found THEN handleError(fileNotFound)
    ELSE FilterRespond(toBuffer(ApplyStage(initialize(create(file.file.buffer)),
                                           filterType),
                                "png", Num(80), encodeOk), file.file)

\* POST /filter/:type
FilterRoute ==
    /\ rpc = "handler"
    /\ req.route = "filter"
    /\ \E encodeOk \in BOOLEAN :
        Respond(FilterOutcome(req.param, getUploadedFile(StrImage), encodeOk))
    /\ UNCHANGED <<proc, pending, micro, unhandled>>
    /\ UnchangedByHandler

\* one pass of the /batch loop: the entry pushed for a file
BatchEncode(file, tb) ==
    IF tb.threw
    THEN [originalName |-> file.name, success |-> FALSE, error |-> EncodeError.message]
    ELSE [originalName |-> file.name, success |-> TRUE, data |-> tb.out]

BatchProcess(file, pr, o, encodeOk) ==
    IF pr.threw
    THEN [originalName |-> file.name, success |-> FALSE, error |-> ContextError.message]
    ELSE BatchEncode(file, toBuffer(pr.p, OutputFormat(o), OutputQuality(o), encodeOk))

BatchEntry(file, o, failAt, encodeOk) ==
    BatchProcess(file, process(create(file.buffer), o, failAt), o, encodeOk)

\* the platform's part in each pass: the stage that throws, the encoder
BatchChoices(n) == [1..n -> (0..Len(ProcessOrder)) \X BOOLEAN]

BatchResults(fs, o, choice) ==
    [k \in 1..Len(fs) |-> BatchEntry(fs[k], o, choice[k][1], choice[k][2])]

BatchData(results) ==
    [processed |-> Cardinality({k \in 1..Len(results) : results[k].success}),
     failed |-> Cardinality({k \in 1..Len(results) : ~results[k].success}),
     results |-> results]

\* c.req.json() in the handler: the body text through JSON.parse
RequestJson == JsonParse(Decode(req.body))

\* POST /batch, the handler under asyncHandler
BatchRoute ==
    /\ rpc = "handler"
    /\ req.route = "batch"
    /\ IF Len(getUploadedFiles) = 0 THEN Respond(handleError(fileNotFound))
       ELSE IF ~RequestJson.ok THEN Respond(handleError(SyntaxError))
       ELSE \E choice \in BatchChoices(Len(getUploadedFiles)) :
                Respond(formatSuccessResponse(
                    BatchData(BatchResults(getUploadedFiles, RequestJson.v, choice))))
    /\ UNCHANGED <<proc, pending, micro, unhandled>>
    /\ UnchangedByHandler

\* the content type zValidator('json', ...) reads a JSON body under
IsJsonRequest == req.contentType.present /\ ExactAt(req.contentType.v, 0, HdrJson)

\* zValidator('json', imageProcessingSchema, hook) in front of /batch. A JSON
\* body is parsed and validated: a malformed one is thrown past the route (to
\* app.onError), an invalid one is answered by the hook. Under any other
\* content type the library either throws (strict) or validates {}.
BatchValidator ==
    /\ rpc = "validator"
    /\ IF IsJsonRequest
       THEN IF ~RequestJson.ok THEN Respond(onError)
            ELSE IF ~imageProcessingSchema(RequestJson.v)
            THEN Respond(ErrorResponse(400, "parameter validation failed", ""))
            ELSE /\ rpc' = "handler"
                 /\ resp' = resp
       ELSE \E strict \in BOOLEAN :
                IF strict THEN Respond(onError)
                ELSE /\ rpc' = "handler"
                     /\ resp' = resp
    /\ UNCHANGED <<proc, pending, micro, unhandled>>
    /\ UnchangedByHandler

-----------------------------------------------------------------------------
(* /resize and /crop: the transform is started and not awaited *)

FitCover == <<99, 111, 118, 101, 114>>
FitContain == <<99, 111, 110, 116, 97, 105, 110>>
FitFill == <<102, 105, 108, 108>>
FitInside == <<105, 110, 115, 105, 100, 101>>
FitOutside == <<111, 117, 116, 115, 105, 100, 101>>

\* the fit field as a value of the enum, "other" when it is none of them
FitName(text) ==
    CASE text = FitCover -> "cover"
      [] text = FitContain -> "contain"
      [] text = FitFill -> "fill"
      [] text = FitInside -> "inside"
      [] text = FitOutside -> "outside"
      [] OTHER -> "other"

FieldInt(f) == IF f.found THEN ParseInt(f.v) ELSE Undef

\* /resize: options from the separate fields
ResizeFields(widthStr, heightStr, fit) ==
    IF ~widthStr.found /\ ~heightStr.found THEN [ok |-> FALSE]
    ELSE [ok |-> TRUE,
          v |-> [NoOptions EXCEPT !.width = FieldInt(widthStr),
                                  !.height = FieldInt(heightStr),
                                  !.fit = Str(IF fit.found THEN FitName(fit.v)
                                              ELSE "cover")]]

\* /resize: the options object, or the validation error thrown for it
ResizeParsed(optionsStr) ==
    IF optionsStr.found THEN JsonParse(optionsStr.v)
    ELSE ResizeFields(getFormField(StrWidth), getFormField(StrHeight),
                      getFormField(StrFit))

\* /crop: options from the separate fields
CropFields(leftStr, topStr, widthStr, heightStr) ==
    IF ~leftStr.found \/ ~topStr.found \/ ~widthStr.found \/ ~heightStr.found
    THEN [ok |-> FALSE]
    ELSE [ok |-> TRUE,
          v |-> [NoOptions EXCEPT !.left = ParseInt(leftStr.v),
                                  !.top = ParseInt(topStr.v),
                                  !.width = ParseInt(widthStr.v),
                                  !.height = ParseInt(heightStr.v)]]

CropParsed(optionsStr) ==
    IF optionsStr.found THEN JsonParse(optionsStr.v)
    ELSE CropFields(getFormField(StrLeft), getFormField(StrTop),
                    getFormField(StrWidth), getFormField(StrHeight))

\* processor.resize(...) or processor.crop(...) is called and runs up to its
\* `await this.initialize()`, then toBuffer() is called and runs up to its
\* own; the handler awaits toBuffer only. With the canvas API both calls of
\* initialize find canvas null and call createImageBitmap; without it both
\* finish at once and the two methods continue as microtasks, in call order.
StartTransform(buffer) ==
    /\ proc' = InitializeStart(InitializeStart(create(buffer)))
    /\ pending' = IF rt.api THEN {"transform", "toBuffer"} ELSE {}
    /\ micro' = IF rt.api THEN << >> ELSE <<"transform", "toBuffer">>
    /\ rpc' = "await"
    /\ resp' = resp

TransformHandler(file, parsed, valid) ==
    IF ~file.found
    THEN /\ Respond(handleError(fileNotFound))
         /\ UNCHANGED <<proc, pending, micro>>
    ELSE IF ~parsed.ok \/ ~valid
    THEN /\ Respond(handleError(validationError))
         /\ UNCHANGED <<proc, pending, micro>>
    ELSE StartTransform(file.file.buffer)

\* POST /resize, up to `await processor.toBuffer()`
ResizeRoute ==
    /\ rpc = "handler"
    /\ req.route = "resize"
    /\ TransformHandler(getUploadedFile(StrImage),
                        ResizeParsed(getFormField(StrOptions)),
                        ResizeParsed(getFormField(StrOptions)).ok
                            => resizeSchema(ResizeParsed(getFormField(StrOptions)).v))
    /\ UNCHANGED unhandled
    /\ UnchangedByHandler

\* POST /crop, up to `await processor.toBuffer()`
CropRoute ==
    /\ rpc = "handler"
    /\ req.route = "crop"
    /\ TransformHandler(getUploadedFile(StrImage),
                        CropParsed(getFormField(StrOptions)),
                        CropParsed(getFormField(StrOptions)).ok
                            => cropSchema(CropParsed(getFormField(StrOptions)).v))
    /\ UNCHANGED unhandled
    /\ UnchangedByHandler

\* a createImageBitmap promise settles (a task: the microtask queue is
\* empty); the initialize that awaited it runs to its end, and the method
\* that awaited that initialize is queued
BitmapSettles ==
    /\ micro = << >>
    /\ \E k \in pending \cap {"transform", "toBuffer"} :
        /\ pending' = pending \ {k}
        /\ micro' = <<k>>
    /\ proc' = InitializeResume(proc)
    /\ UNCHANGED <<rpc, resp, unhandled>>
    /\ UnchangedByHandler

\* what a throw inside crop leaves behind: the new canvas, no context
AfterThrow(p) ==
    IF req.route = "crop"
    THEN [p EXCEPT !.canvas = TRUE, !.ctx = FALSE, !.drawn = FALSE, !.ops = << >>]
    ELSE p

\* resize or crop continues after its initialize. Nothing awaits its
\* promise: when it throws, the rejection is unhandled.
TransformContinues ==
    /\ micro # << >>
    /\ Head(micro) = "transform"
    /\ micro' = Tail(micro)
    /\ \E throws \in BOOLEAN :
        IF throws /\ CanThrow(proc, req.route)
        THEN /\ proc' = AfterThrow(proc)
             /\ unhandled' = TRUE
        ELSE /\ proc' = ApplyStage(proc, req.route)
             /\ unhandled' = unhandled
    /\ UNCHANGED <<rpc, resp, pending>>
    /\ UnchangedByHandler

\* toBuffer continues after its initialize: convertToBlob is called on the
\* canvas as it is now, or the original bytes are returned to the handler,
\* which answers
ToBufferContinues ==
    /\ micro # << >>
    /\ Head(micro) = "toBuffer"
    /\ micro' = Tail(micro)
    /\ IF proc.canvas
       THEN /\ proc' = [proc EXCEPT !.blob = Encoded("png", Num(80), proc)]
            /\ pending' = pending \cup {"blob"}
            /\ UNCHANGED <<rpc, resp>>
       ELSE /\ Respond(ImageResponse(getUploadedFile(StrImage).file.type,
                                     Original(proc.imageData)))
            /\ UNCHANGED <<proc, pending>>
    /\ UNCHANGED unhandled
    /\ UnchangedByHandler

\* convertToBlob settles: toBuffer returns or throws, the handler answers
BlobSettles ==
    /\ micro = << >>
    /\ "blob" \in pending
    /\ pending' = pending \ {"blob"}
    /\ \E encodeOk \in BOOLEAN :
        Respond(IF encodeOk
                THEN ImageResponse(getUploadedFile(StrImage).file.type, proc.blob)
                ELSE handleError(EncodeError))
    /\ UNCHANGED <<proc, micro, unhandled>>
    /\ UnchangedByHandler

-----------------------------------------------------------------------------
(* SpecRequest: one request through the upload middleware and its route *)

\* the most file parts a request of the model carries
MaxUploads == 3

Zeros(n) == [k \in 1..n |-> 0]

ReqFileKinds ==
    { FilePart(StrImage, MimePng, BytesPng),
      FilePart(StrImage, MimeJpeg, BytesJpeg),
      FilePart(StrOther, MimeGif, BytesGif),
      FilePart(StrImage, MimeWebp, BytesWebp),
      FilePart(StrImage, MimeBmp, BytesBmp),
      FilePart(StrImage, MimeAvif, BytesAvif),
      FilePart(StrImage, MimePng, <<120>>),
      FilePart(StrImage, MimeText, BytesPng),
      FilePart(StrImage, MimePng, BytesPng \o Zeros(MaxFileSize + 1 - Len(BytesPng))) }

Field(name, value) == Part(name, FALSE, << >>, << >>, TRUE, value)

ReqFieldKinds ==
    { Field(StrOptions, JsonEmpty),
      Field(StrOptions, JsonConvert),
      Field(StrOptions, JsonSaturation),
      Field(StrOptions, JsonBadWidth),
      Field(StrOptions, JsonCrop),
      Field(StrOptions, JsonBroken),
      Field(StrWidth, Str800) }

\* the files of requests with several uploads: two valid ones under
\* different field names, one with no image signature
ManyFileKinds ==
    { FilePart(StrImage, MimePng, BytesPng),
      FilePart(StrOther, MimeGif, BytesGif),
      FilePart(StrImage, MimePng, <<120>>) }

\* the parts of a request: at most one file and one field in either order,
\* up to two fields, or up to MaxUploads files
ReqBodies ==
    {f \o g : f \in SeqsUpTo(ReqFieldKinds, 1), g \in SeqsUpTo(ReqFileKinds, 1)}
    \cup {g \o f : f \in SeqsUpTo(ReqFieldKinds, 1), g \in SeqsUpTo(ReqFileKinds, 1)}
    \cup SeqsUpTo(ReqFieldKinds, 2)
    \cup SeqsUpTo(ManyFileKinds, MaxUploads)

NoQuery == [present |-> FALSE]
Query(q) == [present |-> TRUE, v |-> q]

\* route, path parameter, query value (quality of /convert, sigma of /filter)
Route(route, param, query) == [route |-> route, param |-> param, query |-> query]

RouteVariants ==
    { Route("process", "", NoQuery), Route("info", "", NoQuery),
      Route("resize", "", NoQuery), Route("crop", "", NoQuery),
      Route("batch", "", NoQuery),
      Route("convert", "png", NoQuery), Route("convert", "jpeg", Query(Str500)),
      Route("convert", "tiff", NoQuery),
      Route("filter", "grayscale", NoQuery), Route("filter", "blur", Query(Str1)),
      Route("filter", "sharpen", NoQuery), Route("filter", "sepia", NoQuery) }

Request(variant, contentType, ps, body) ==
    [route |-> variant.route, param |-> variant.param, query |-> variant.query,
     contentType |-> contentType, parts |-> ps, body |-> body]

\* multipart requests with a framed body; with a body in which the delimiter
\* does not occur; with no boundary parameter; requests with a JSON body;
\* requests with no content type and no body
Requests ==
    {Request(v, Header(h), ps, Frame(ps, TRUE)) :
        v \in RouteVariants, h \in {HdrMultipart}, ps \in ReqBodies}
    \cup {Request(v, Header(HdrMultipartQuoted), ps, Frame(ps, TRUE)) :
        v \in RouteVariants, ps \in SeqsUpTo({FilePart(StrImage, MimePng, BytesPng)}, 1)}
    \cup {Request(v, Header(HdrMultipart), << >>, b) :
        v \in RouteVariants, b \in Unframed}
    \cup {Request(v, Header(HdrNoBoundary), << >>, << >>) : v \in RouteVariants}
    \cup {Request(v, Header(HdrJson), << >>, b) :
        v \in RouteVariants, b \in {JsonEmpty, JsonBadWidth, JsonBroken}}
    \cup {Request(v, NoHeader, << >>, << >>) : v \in RouteVariants}

\* the platform: createImageBitmap and OffscreenCanvas exist; getContext('2d')
\* gives a context; createImageBitmap decodes the uploaded bytes
Runtimes ==
    {[api |-> FALSE, ctx |-> FALSE, decodable |-> FALSE]}
    \cup [api : {TRUE}, ctx : BOOLEAN, decodable : BOOLEAN]

InitRequest ==
    /\ req \in Requests
    /\ rt \in Runtimes
    /\ rpc = "upload"
    /\ ctx = [set |-> FALSE]
    /\ resp = [status |-> 0]
    /\ proc = [none |-> TRUE]
    /\ pending = {}
    /\ micro = << >>
    /\ unhandled = FALSE
    /\ MultipartIdle
    /\ ProcessIdle
    /\ DimensionsIdle
    /\ SurfaceIdle

NextRequest ==
    \/ UploadHeader
    \/ UploadBody
    \/ BatchValidator
    \/ ProcessRoute
    \/ InfoRoute
    \/ ResizeRoute
    \/ CropRoute
    \/ ConvertRoute
    \/ FilterRoute
    \/ BatchRoute
    \/ BitmapSettles
    \/ TransformContinues
    \/ ToBufferContinues
    \/ BlobSettles

SpecRequest == InitRequest /\ [][NextRequest]_vars

-----------------------------------------------------------------------------
(* Claims about a request (SpecRequest) *)

\* the request is multipart/form-data with a boundary parameter
IsMultipart ==
    /\ req.contentType.present
    /\ Includes(req.contentType.v, LitMultipart)
    /\ BoundaryHits(req.contentType.v) # {}

\* the body holds no occurrence of the delimiter `--<boundary>`
NoDelimiter ==
    findBoundary(req.body, boundaryBytes(Boundary(req.contentType.v)), 0) = -1

\* the upload middleware has called next(): the request is with the route
PassedUpload == rpc \in {"validator", "handler", "await"} \/ (rpc = "done" /\ ctx.set)

\* the middleware's catch answered (the body could not be read)
ReadFailed == rpc = "done" /\ resp.kind = "error" /\ resp.error = "file upload failed"

\* the upload middleware is through with the request
UploadOver == rpc \notin {"idle", "upload", "body"}

\* C4: a multipart request whose body holds no occurrence of the delimiter is
\* rejected as malformed: it is never passed on to the route, and no result
\* of decoding (empty or partial) is set on the context.
C4_NoDelimiterRejected ==
    (rpc # "idle" /\ IsMultipart /\ NoDelimiter) => (~PassedUpload /\ ~ctx.set)

\* the documented formats: declared content type and leading bytes
DocumentedFormats ==
    { [mime |-> MimeJpeg, lead |-> BytesJpeg], [mime |-> MimePng, lead |-> BytesPng],
      [mime |-> MimeGif, lead |-> BytesGif], [mime |-> MimeWebp, lead |-> BytesWebp],
      [mime |-> MimeAvif, lead |-> BytesAvif], [mime |-> MimeBmp, lead |-> BytesBmp] }

\* a file part of a documented format, declared as what it is, within the
\* size limit
ValidUpload(p) ==
    /\ p.hasFn
    /\ p.fn # << >>
    /\ Len(p.payload) <= MaxFileSize
    /\ \E f \in DocumentedFormats :
        /\ p.ctype = f.mime
        /\ Len(p.payload) >= Len(f.lead)
        /\ SubSeq(p.payload, 1, Len(f.lead)) = f.lead

\* the request is multipart and its body is made of valid image files only
ValidUploads ==
    /\ IsMultipart
    /\ Len(req.parts) >= 1
    /\ \A k \in 1..Len(req.parts) : ValidUpload(req.parts[k])

\* the running (or finished) /resize or /crop handler has made its processor
Transforming == req.route \in {"resize", "crop"} /\ rpc \in {"await", "done"} /\ ctx.set
                /\ "decodes" \in DOMAIN proc

\* on this platform the canvas works and decodes the upload
CanvasWorks == rt.api /\ rt.ctx /\ rt.decodable

\* /resize or /crop has answered with image bytes
TransformAnswered == Transforming /\ resp.status = 200

\* C6 (output): where the canvas works, the bytes /resize and /crop return
\* are the encoding of the surface after exactly the requested transform.
C6_Output ==
    (TransformAnswered /\ CanvasWorks)
        => resp.body = Encoded("png", Num(80), [drawn |-> TRUE, ops |-> <<req.route>>])

\* C6 (decoding): the processor of /resize and /crop decodes the image at
\* most once.
C6_DecodedOnce == Transforming => proc.decodes <= 1

\* C6: in /resize and /crop the transform has completed before the output is
\* encoded, under every interleaving of initialize, resize/crop and toBuffer:
\* the bytes returned encode the transformed surface and the image is decoded
\* at most once per processor.
C6_TransformBeforeEncode == C6_Output /\ C6_DecodedOnce

\* C7: every failure becomes an error response with status 400 or 500 and a
\* JSON body with an error message, and no promise rejection goes unhandled.
C7_FailuresAnswered ==
    /\ ~unhandled
    /\ (rpc = "done" /\ resp.kind = "error")
        => (resp.status \in {400, 500} /\ resp.error # "")

\* the file parts of the body have an image signature or not
Corrupt(p) == ~isValidImageFormat(p.payload)

\* the body of the request is made of file parts, valid or corrupt
FilesOnly ==
    /\ IsMultipart
    /\ Len(req.parts) >= 1
    /\ \A k \in 1..Len(req.parts) : req.parts[k] \in ManyFileKinds

\* C8: /batch answers a request with N files by N entries in body order,
\* a corrupt file has success = false at its own index, and
\* processed + failed = N.
C8_BatchPerFile ==
    (req.route = "batch" /\ FilesOnly /\ rpc = "done" /\ ~ReadFailed)
        => /\ resp.kind = "success"
           /\ Len(resp.data.results) = Len(req.parts)
           /\ resp.data.processed + resp.data.failed = Len(req.parts)
           /\ \A k \in 1..Len(req.parts) :
                /\ resp.data.results[k].originalName = req.parts[k].fn
                /\ Corrupt(req.parts[k]) => ~resp.data.results[k].success

\* the documented limit of files per batch request
DocumentedBatchLimit == 5

\* C9: a /batch request with 1 to 5 valid image files passes the upload
\* middleware and reaches the batch handler.
C9_BatchUpToFive ==
    (req.route = "batch" /\ ValidUploads /\ Len(req.parts) <= DocumentedBatchLimit
     /\ UploadOver /\ ~ReadFailed)
        => PassedUpload

\* C10: a request with one file of a documented format (JPEG, PNG, GIF, WebP,
\* AVIF, BMP), declared as what it is and within the size limit, passes
\* upload validation.
C10_SixFormatsPass ==
    (ValidUploads /\ Len(req.parts) = 1 /\ UploadOver /\ ~ReadFailed) => PassedUpload

-----------------------------------------------------------------------------
(* SpecDimensions: one call of extractImageInfo on image bytes *)

\* bytes after the header fields of the files below
MaxExtra == 2

\* 32-bit and 16-bit fields as they stand in a file
Quads == { <<0, 0, 0, 1>>, <<0, 0, 1, 0>>, <<0, 0, 15, 160>>, <<0, 1, 0, 0>>,
           <<128, 0, 0, 0>>, <<255, 255, 255, 255>> }
Pairs == { <<0, 1>>, <<1, 0>>, <<15, 160>>, <<255, 255>> }

\* PNG: signature, IHDR length and type, width, height (big-endian)
PngFile(w, h) == BytesPng \o <<0, 0, 0, 13, 73, 72, 68, 82>> \o w \o h

\* JPEG: SOI, SOF0 marker, segment length, precision, height, width
JpegFile(h, w) == <<255, 216, 255, 192, 0, 17, 8>> \o h \o w \o <<3>>

\* GIF: "GIF89a", width, height (little-endian)
GifFile(w, h) == BytesGif \o w \o h

\* BMP: "BM", file header, DIB header size, width, height (little-endian)
BmpFile(w, h) == <<66, 77>> \o Zeros(12) \o <<40, 0, 0, 0>> \o w \o h

\* WebP: RIFF header, "WEBP", "VP8 ", chunk size, frame tag, start code,
\* width, height (14 bits each, little-endian)
WebpFile(w, h) ==
    BytesWebp \o <<86, 80, 56, 32>> \o Zeros(4) \o Zeros(3) \o <<157, 1, 42>> \o w \o h

WellFormed ==
    {PngFile(w, h) \o Zeros(e) : w \in Quads, h \in Quads, e \in 0..MaxExtra}
    \cup {JpegFile(h, w) \o Zeros(e) : w \in Pairs, h \in Pairs, e \in 0..MaxExtra}
    \cup {GifFile(w, h) \o Zeros(e) : w \in Pairs, h \in Pairs, e \in 0..MaxExtra}
    \cup {BmpFile(w, h) \o Zeros(e) : w \in Quads, h \in Quads, e \in 0..MaxExtra}
    \cup {WebpFile(w, h) \o Zeros(e) : w \in Pairs, h \in Pairs, e \in 0..MaxExtra}
    \cup {BytesAvif \o Zeros(e) : e \in 0..MaxExtra}

\* the files, whole and truncated at every length
DimensionBuffers == UNION {{SubSeq(f, 1, n) : n \in 0..Len(f)} : f \in WellFormed}

InitDimensions ==
    /\ buf \in DimensionBuffers
    /\ dims = [none |-> TRUE]
    /\ dpc = "start"
    /\ MultipartIdle
    /\ ProcessIdle
    /\ RequestIdle
    /\ SurfaceIdle

\* a case of the switch in extractImageInfo
ExtractCase(format, result) ==
    /\ dpc = "start"
    /\ detectFormat(buf) = format
    /\ dims' = result
    /\ dpc' = "done"
    /\ UNCHANGED buf
    /\ UNCHANGED mvars
    /\ UNCHANGED pvars
    /\ UNCHANGED rvars
    /\ UNCHANGED svars

ExtractPng == ExtractCase("png", extractPngInfo(buf))
ExtractJpeg == ExtractCase("jpeg", extractJpegInfo(buf))
ExtractGif == ExtractCase("gif", extractGifInfo(buf))
ExtractBmp == ExtractCase("bmp", extractBmpInfo(buf))
ExtractWebp == ExtractCase("webp", extractWebpInfo(buf))
ExtractDefault == ExtractCase("unknown", DefaultSize)

NextDimensions ==
    \/ ExtractPng
    \/ ExtractJpeg
    \/ ExtractGif
    \/ ExtractBmp
    \/ ExtractWebp
    \/ ExtractDefault

SpecDimensions == InitDimensions /\ [][NextDimensions]_vars

\* the indices signature.every reads: up to the first mismatch
SignatureReads(d, signature) ==
    {i \in 0..(Len(signature) - 1) :
        \A j \in 0..(i - 1) : At(d, j) = signature[j + 1]}

\* the signatures detectFormat tries: up to the first that matches
SignaturesTried(d) ==
    {k \in 1..Len(DetectSignatures) :
        \A j \in 1..(k - 1) : ~SignatureMatches(d, DetectSignatures[j].signature)}

\* the indices detectFormat reads
DetectReads(d) ==
    UNION {SignatureReads(d, DetectSignatures[k].signature) : k \in SignaturesTried(d)}

\* the indices the scan of extractJpegInfo reads at offset i
JpegScanReads(d, i) ==
    {i} \cup (IF At(d, i) = 255 THEN {i + 1} ELSE {})
        \cup (IF i \in SofOffsets(d) THEN (i + 5)..(i + 8) ELSE {})

\* the indices the extract function of the detected format reads
ExtractReads(d) ==
    CASE detectFormat(d) = "png" -> IF Len(d) < 24 THEN {} ELSE 16..23
      [] detectFormat(d) = "jpeg" ->
            UNION {JpegScanReads(d, i) :
                    i \in {j \in 2..(Len(d) - 10) :
                            \A m \in 2..(j - 1) : m \notin SofOffsets(d)}}
      [] detectFormat(d) = "gif" -> IF Len(d) < 10 THEN {} ELSE 6..9
      [] detectFormat(d) = "bmp" -> IF Len(d) < 26 THEN {} ELSE 18..25
      [] detectFormat(d) = "webp" ->
            IF Len(d) < 30 THEN {}
            ELSE {12} \cup (IF At(d, 12) = 86 THEN {13} ELSE {})
                      \cup (IF At(d, 12) = 86 /\ At(d, 13) = 80 THEN {14} ELSE {})
                      \cup (IF At(d, 12) = 86 /\ At(d, 13) = 80 /\ At(d, 14) = 56
                            THEN {15} ELSE {})
                      \cup (IF At(d, 12) = 86 /\ At(d, 13) = 80 /\ At(d, 14) = 56
                               /\ At(d, 15) = 32
                            THEN 26..29 ELSE {})
      [] OTHER -> {}

-----------------------------------------------------------------------------
(* Claims about extractImageInfo (SpecDimensions) *)

\* the bytes are fewer than the header of their format needs, or of no
\* known format
Undersized(d) ==
    CASE detectFormat(d) = "png" -> Len(d) < 24
      [] detectFormat(d) = "gif" -> Len(d) < 10
      [] detectFormat(d) = "bmp" -> Len(d) < 26
      [] detectFormat(d) = "webp" -> Len(d) < 30
      [] detectFormat(d) = "jpeg" -> SofOffsets(d) = {}
      [] OTHER -> TRUE

\* the call returned a width/height pair
ReturnedPair == "width" \in DOMAIN dims /\ "height" \in DOMAIN dims

\* no index at or past the length of the buffer was read
ReadsInRange == \A i \in DetectReads(buf) \cup ExtractReads(buf) : i < Len(buf)

\* C11: for a buffer shorter than the header of its detected format, and for
\* a buffer of unknown format, extraction reports a failure instead of a
\* width/height pair and reads no index at or past the buffer length.
C11_ShortBufferFails ==
    (dpc = "done" /\ Undersized(buf)) => (~ReturnedPair /\ ReadsInRange)

-----------------------------------------------------------------------------
(* SpecSurface: the methods of one ImageProcessor, called in any order on a
   canvas that initialize has drawn.  A surface is the canvas: its width, its
   height and its pixels <<R, G, B, A>> in row order, as getImageData returns
   them.  Numbers that are not integers are fractions n / d with d > 0. *)

\* calls made on one processor
MaxOps == 2

Fits == <<"cover", "contain", "fill", "inside", "outside">>

Transparent == <<0, 0, 0, 0>>

Surface(w, h, pixels) == [width |-> w, height |-> h, data |-> pixels]

\* a canvas just made: transparent black
Blank(w, h) == Surface(w, h, [i \in 1..(w * h) |-> Transparent])

\* the pixel at column x, row y
PixelAt(s, x, y) == s.data[y * s.width + x + 1]

Inside(s, x, y) == x >= 0 /\ x < s.width /\ y >= 0 /\ y < s.height

\* new OffscreenCanvas(n / d, ...): the side is the integer part
CanvasSide(n, d) == n \div d

\* the functions that take each argument of sets to an element of its set
RECURSIVE Choices(_)
Choices(sets) ==
    LET p == CHOOSE p \in DOMAIN sets : TRUE
    IN IF DOMAIN sets = {p}
       THEN {p :> x : x \in sets[p]}
       ELSE {(p :> x) @@ rest :
                x \in sets[p], rest \in Choices([q \in DOMAIN sets \ {p} |-> sets[q]])}

\* the byte a Uint8ClampedArray stores for n / d: clamped to 0..255 and
\* rounded to the nearest integer.  Half-way values go to the even neighbour
\* when the fraction is computed exactly; otherwise the double that stands
\* for n / d may lie on either side, and both neighbours are outcomes.
ToUint8Clamp(n, d, exactly) ==
    IF n <= 0 THEN {0}
    ELSE IF n >= 255 * d THEN {255}
    ELSE IF 2 * (n % d) < d THEN {n \div d}
    ELSE IF 2 * (n % d) > d THEN {(n \div d) + 1}
    ELSE IF exactly THEN {IF (n \div d) % 2 = 0 THEN n \div d ELSE (n \div d) + 1}
    ELSE {n \div d, (n \div d) + 1}

\* the call finished: prev keeps the canvas the call found
Done(op, s) ==
    /\ surf' = s
    /\ prev' = surf
    /\ hist' = Append(hist, op)
    /\ fault' = FALSE
    /\ UNCHANGED dvars
    /\ UNCHANGED mvars
    /\ UNCHANGED pvars
    /\ UNCHANGED rvars

\* the call threw and left the canvas s behind
Threw(op, s) ==
    /\ surf' = s
    /\ prev' = surf
    /\ hist' = Append(hist, op)
    /\ fault' = TRUE
    /\ UNCHANGED dvars
    /\ UNCHANGED mvars
    /\ UNCHANGED pvars
    /\ UNCHANGED rvars

\* a method may be called: nothing threw so far
Callable == ~fault /\ Len(hist) < MaxOps

\* getImageData(0, 0, canvas.width, canvas.height) throws IndexSizeError on
\* a canvas with a side of zero; drawImage(canvas, ...) throws
\* InvalidStateError on such a source
ZeroSized(s) == s.width = 0 \/ s.height = 0

Op(name, args) == [name |-> name, args |-> args]

(* crop *)

\* ctx.getImageData(left, top, width, height): pixels outside the canvas
\* read as transparent black
getImageData(s, left, top, width, height) ==
    Surface(width, height,
        [i \in 1..(width * height) |->
            IF Inside(s, left + ((i - 1) % width), top + ((i - 1) \div width))
            THEN PixelAt(s, left + ((i - 1) % width), top + ((i - 1) \div width))
            ELSE Transparent])

CropRects == { <<0, 0, 1, 1>>, <<1, 0, 2, 1>>, <<1, 1, 2, 2>> }

Crop ==
    /\ Callable
    /\ \E r \in CropRects, context \in BOOLEAN :
        IF context
        THEN Done(Op("crop", r), getImageData(surf, r[1], r[2], r[3], r[4]))
        ELSE Threw(Op("crop", r), Blank(r[3], r[4]))

(* resize *)

Size2(wn, wd, hn, hd) == [wn |-> wn, wd |-> wd, hn |-> hn, hd |-> hd]

\* newWidth and newHeight as resize computes them; fit is an index of Fits
ResizeSizeContain(cw, ch, width, height, fit) ==
    IF width # Undefined /\ height # Undefined
    THEN CASE Fits[fit] = "cover" ->
                IF cw * height > width * ch
                THEN Size2(width, 1, width * ch, cw)
                ELSE Size2(height * cw, ch, height, 1)
           [] Fits[fit] = "contain" ->
                IF cw * height > width * ch
                THEN Size2(width, 1, width * ch, cw)
                ELSE Size2(height * cw, ch, height, 1)
           [] OTHER -> Size2(width, 1, height, 1)
    ELSE IF width # Undefined THEN Size2(width, 1, width * ch, cw)
    ELSE IF height # Undefined THEN Size2(height * cw, ch, height, 1)
    ELSE Size2(cw, 1, ch, 1)

ResizeSize(cw, ch, width, height, fit) ==
    IF width # Undefined /\ height # Undefined
    THEN CASE Fits[fit] = "cover" ->
                IF cw * height > width * ch
                THEN Size2(height * cw, ch, height, 1)
                ELSE Size2(width, 1, width * ch, cw)
           [] Fits[fit] = "contain" ->
                IF cw * height > width * ch
                THEN Size2(width, 1, width * ch, cw)
                ELSE Size2(height * cw, ch, height, 1)
           [] OTHER -> Size2(width, 1, height, 1)
    ELSE IF width # Undefined THEN Size2(width, 1, width * ch, cw)
    ELSE IF height # Undefined THEN Size2(height * cw, ch, height, 1)
    ELSE Size2(cw, 1, ch, 1)

\* the source column (row) drawn at target column (row) x: drawImage scales
\* the source to n / d pixels; the model samples at the centre of the target
\* pixel (the filter itself is left to the platform)
Sample(x, n, d, side) == Min({side - 1, ((2 * x + 1) * side * d) \div (2 * n)})

\* newCtx.drawImage(this.canvas, 0, 0, newWidth, newHeight) on a new canvas
Resampled(s, size, w, h) ==
    Surface(w, h,
        [i \in 1..(w * h) |->
            PixelAt(s, Sample((i - 1) % w, size.wn, size.wd, s.width),
                       Sample((i - 1) \div w, size.hn, size.hd, s.height))])

DrawResized(s, size) ==
    Resampled(s, size, CanvasSide(size.wn, size.wd), CanvasSide(size.hn, size.hd))

\* width, height, fit
ResizeTargets ==
    { <<1, Undefined, 1>>, <<Undefined, 2, 1>>, <<1, 1, 1>>, <<2, 4, 1>>,
      <<2, 1, 2>>, <<2, 3, 3>> }

Resize ==
    /\ Callable
    /\ \E t \in ResizeTargets, context \in BOOLEAN :
        IF ZeroSized(surf) \/ ~context
        THEN Threw(Op("resize", t), surf)
        ELSE Done(Op("resize", t),
                  DrawResized(surf, ResizeSize(surf.width, surf.height, t[1], t[2], t[3])))

(* rotate *)

\* quarter turns: |cos| and |sin| of angle * PI / 180 as the doubles give
\* them, a value below 1e-16 adding nothing to a side of 1 or more
Angles == {90, -180}

Cos(angle) == IF angle % 180 = 0 THEN 1 ELSE 0
Sin(angle) == IF angle % 180 = 0 THEN 0 ELSE 1

\* the source pixel drawn at x, y of the turned canvas
Turned(s, angle, x, y) ==
    CASE angle % 360 = 90 -> PixelAt(s, y, s.height - 1 - x)
      [] angle % 360 = 180 -> PixelAt(s, s.width - 1 - x, s.height - 1 - y)
      [] angle % 360 = 270 -> PixelAt(s, s.width - 1 - y, x)
      [] OTHER -> PixelAt(s, x, y)

DrawTurned(s, angle, w, h) ==
    Surface(w, h, [i \in 1..(w * h) |-> Turned(s, angle, (i - 1) % w, (i - 1) \div w)])

Rotate ==
    /\ Callable
    /\ \E angle \in Angles, context \in BOOLEAN :
        IF ZeroSized(surf) \/ ~context
        THEN Threw(Op("rotate", <<angle>>), surf)
        ELSE Done(Op("rotate", <<angle>>),
                  DrawTurned(surf, angle,
                      surf.width * Cos(angle) + surf.height * Sin(angle),
                      surf.width * Sin(angle) + surf.height * Cos(angle)))


(* the colour stages: getImageData, a loop over the pixels, putImageData *)

\* the pixels of a canvas, as a set
Colours(s) == {s.data[i] : i \in 1..Len(s.data)}

\* a stage that maps each pixel to one of the pixels outcomes gives for it:
\* equal pixels go through the same arithmetic and get the same result
Stage(op, outcomes) ==
    /\ Callable
    /\ IF ZeroSized(surf)
       THEN Threw(op, surf)
       ELSE \E map \in Choices(outcomes) :
                Done(op, Surface(surf.width, surf.height,
                                 [i \in 1..Len(surf.data) |-> map[surf.data[i]]]))

\* 1000 times 0.299 * R + 0.587 * G + 0.114 * B
LumaHeavy(p) == 299 * p[1] + 587 * p[2] + 214 * p[3]

Luma(p) == 299 * p[1] + 587 * p[2] + 114 * p[3]

\* grayscale: the same double goes into R, G and B
GrayPixels(p) == {<<k, k, k, p[4]>> : k \in ToUint8Clamp(Luma(p), 1000, FALSE)}

Grayscale == Stage(Op("grayscale", <<>>), [p \in Colours(surf) |-> GrayPixels(p)])

\* the pixels whose three colour channels are drawn from the sets r, g, b
Coloured(r, g, b, alpha) == {<<x, y, z, alpha>> : x \in r, y \in g, z \in b}

\* a double holds n / d exactly when d is a power of two (n is small)
Dyadic(d) == d \in {1, 2, 4, 8}

\* brightness(n / d): data[i] + (value - 1) * 255
Brighter(c, n, d) == ToUint8Clamp(c * d + 255 * (n - d), d, Dyadic(d))

BrightPixels(p, v) ==
    Coloured(Brighter(p[1], v[1], v[2]), Brighter(p[2], v[1], v[2]),
             Brighter(p[3], v[1], v[2]), p[4])

Levels == { <<1, 1>>, <<1, 2>> }

Brightness ==
    \E v \in Levels :
        Stage(Op("brightness", v), [p \in Colours(surf) |-> BrightPixels(p, v)])

\* contrast(n / d): factor = (259 * (value * 255 + 255)) / (255 * (259 - value * 255)),
\* that is 259 * (n + d) / (259 * d - 255 * n); the channel becomes
\* factor * (data[i] - 128) + 128
ContrastDivisor(n, d) == 259 * d - 255 * n

\* 259 - value * 255 is zero or, by the rounding of value * 255, a tiny number
\* of either sign: the factor is Infinity or huge.  Infinity * 0 is NaN,
\* Math.max(0, Math.min(255, NaN)) is NaN, and the array stores NaN as 0.
Singular == {"infinite", "huge", "-huge"}

AtSingularity(c, how) ==
    IF c = 128 THEN (IF how = "infinite" THEN 0 ELSE 128)
    ELSE IF (c > 128) = (how # "-huge") THEN 255
    ELSE 0

Contrasted(c, n, d, how) ==
    IF ContrastDivisor(n, d) = 0 THEN {AtSingularity(c, how)}
    ELSE IF ContrastDivisor(n, d) > 0
    THEN ToUint8Clamp(259 * (n + d) * (c - 128) + 128 * ContrastDivisor(n, d),
                      ContrastDivisor(n, d), FALSE)
    ELSE ToUint8Clamp(0 - (259 * (n + d) * (c - 128) + 128 * ContrastDivisor(n, d)),
                      0 - ContrastDivisor(n, d), FALSE)

ContrastPixels(p, v, how) ==
    Coloured(Contrasted(p[1], v[1], v[2], how), Contrasted(p[2], v[1], v[2], how),
             Contrasted(p[3], v[1], v[2], how), p[4])

Contrasts == { <<1, 1>>, <<1, 10>>, <<259, 255>>, <<3, 1>> }

Contrast ==
    \E v \in Contrasts :
        \E how \in (IF ContrastDivisor(v[1], v[2]) = 0 THEN Singular ELSE {"huge"}) :
            Stage(Op("contrast", v), [p \in Colours(surf) |-> ContrastPixels(p, v, how)])

\* saturation(n / d): gray + (data[i] - gray) * value
Saturated(c, gray, n, d) ==
    ToUint8Clamp(gray * d + (1000 * c - gray) * n, 1000 * d, FALSE)

SaturationPixels(p, v) ==
    Coloured(Saturated(p[1], Luma(p), v[1], v[2]), Saturated(p[2], Luma(p), v[1], v[2]),
             Saturated(p[3], Luma(p), v[1], v[2]), p[4])

Saturations == { <<1, 1>>, <<0, 1>>, <<3, 1>> }

Saturation ==
    \E v \in Saturations :
        Stage(Op("saturation", v), [p \in Colours(surf) |-> SaturationPixels(p, v)])

(* blur and sharpen read the neighbours of a pixel *)

\* sigma n / d; d = 0 stands for NaN (parseFloat of a query that is no number)
Sigmas == { <<3, 10>>, <<2, 1>>, <<0, 0>> }

\* Math.max(1, Math.floor(sigma)); with NaN the loops over dy, dx do not run
Neighbours(s, x, y, sigma) ==
    IF sigma[2] = 0 THEN {}
    ELSE {q \in ((x - Max({1, sigma[1] \div sigma[2]}))..(x + Max({1, sigma[1] \div sigma[2]})))
                \X ((y - Max({1, sigma[1] \div sigma[2]}))..(y + Max({1, sigma[1] \div sigma[2]}))) :
            Inside(s, q[1], q[2])}

RECURSIVE Sum(_, _, _)
Sum(s, cells, k) ==
    IF cells = {} THEN 0
    ELSE LET q == CHOOSE q \in cells : TRUE
         IN PixelAt(s, q[1], q[2])[k] + Sum(s, cells \ {q}, k)

\* r / count stored in the array; 0 / 0 is NaN and is stored as 0
Mean(s, cells, k) ==
    IF cells = {} THEN 0
    ELSE CHOOSE b \in ToUint8Clamp(Sum(s, cells, k), Cardinality(cells), TRUE) : TRUE

Blurred(s, sigma) ==
    Surface(s.width, s.height,
        [i \in 1..Len(s.data) |->
            [k \in 1..4 |->
                Mean(s, Neighbours(s, (i - 1) % s.width, (i - 1) \div s.width, sigma), k)]])

Blur ==
    /\ Callable
    /\ \E sigma \in Sigmas :
        IF ZeroSized(surf)
        THEN Threw(Op("blur", sigma), surf)
        ELSE Done(Op("blur", sigma), Blurred(surf, sigma))

\* a kernel with centre weight 4: it leaves flat areas black
KernelFlat(s, x, y, k) ==
    4 * PixelAt(s, x, y)[k] - PixelAt(s, x, y - 1)[k] - PixelAt(s, x - 1, y)[k]
        - PixelAt(s, x + 1, y)[k] - PixelAt(s, x, y + 1)[k]

\* the kernel 0 -1 0 / -1 5 -1 / 0 -1 0 on channel k
Kernel(s, x, y, k) ==
    5 * PixelAt(s, x, y)[k] - PixelAt(s, x, y - 1)[k] - PixelAt(s, x - 1, y)[k]
        - PixelAt(s, x + 1, y)[k] - PixelAt(s, x, y + 1)[k]

Clamp(v) == IF v < 0 THEN 0 ELSE IF v > 255 THEN 255 ELSE v

\* the loops run over 1 <= y < height - 1, 1 <= x < width - 1; alpha is kept
SharpPixel(s, x, y) ==
    IF x >= 1 /\ x < s.width - 1 /\ y >= 1 /\ y < s.height - 1
    THEN <<Clamp(Kernel(s, x, y, 1)), Clamp(Kernel(s, x, y, 2)),
           Clamp(Kernel(s, x, y, 3)), PixelAt(s, x, y)[4]>>
    ELSE PixelAt(s, x, y)

Sharpened(s) ==
    Surface(s.width, s.height,
        [i \in 1..Len(s.data) |-> SharpPixel(s, (i - 1) % s.width, (i - 1) \div s.width)])

Sharpen ==
    /\ Callable
    /\ IF ZeroSized(surf)
       THEN Threw(Op("sharpen", <<>>), surf)
       ELSE Done(Op("sharpen", <<>>), Sharpened(surf))

(* the canvases the methods start from *)

Palette ==
    << <<0, 0, 0, 255>>, <<255, 255, 255, 255>>, <<129, 128, 127, 255>>,
       <<0, 0, 250, 255>>, <<200, 100, 50, 128>>, <<10, 20, 30, 0>> >>

SurfaceSizes == { <<3, 1>>, <<2, 2>>, <<3, 3>> }

\* a canvas whose pixels run through the palette from its entry first
Drawn(w, h, first) ==
    Surface(w, h, [i \in 1..(w * h) |-> Palette[((first + i - 1) % Len(Palette)) + 1]])

InitSurface ==
    /\ \E size \in SurfaceSizes, first \in 0..(Len(Palette) - 1) :
            surf = Drawn(size[1], size[2], first)
    /\ prev = [none |-> TRUE]
    /\ hist = <<>>
    /\ fault = FALSE
    /\ MultipartIdle
    /\ ProcessIdle
    /\ RequestIdle
    /\ DimensionsIdle

NextSurface ==
    \/ Crop
    \/ Resize
    \/ Rotate
    \/ Grayscale
    \/ Brightness
    \/ Contrast
    \/ Saturation
    \/ Blur
    \/ Sharpen

SpecSurface == InitSurface /\ [][NextSurface]_vars


-----------------------------------------------------------------------------
(* Claims about the methods of ImageProcessor (SpecSurface) *)

LastOp == hist[Len(hist)]

\* the last call was the method name
Called(name) == Len(hist) >= 1 /\ LastOp.name = name

Returned(name) == Called(name) /\ ~fault

\* the rectangle <<left, top, width, height>> lies inside the canvas
Contained(s, r) == r[1] + r[3] <= s.width /\ r[2] + r[4] <= s.height

\* C12: crop fails with an OutOfBounds error and leaves the current surface
\* unchanged whenever the rectangle is not fully contained in it; it succeeds
\* only for fully contained rectangles.
C12_CropOutOfBounds ==
    (Called("crop") /\ ~Contained(prev, LastOp.args)) => (fault /\ surf = prev)

\* two canvases of one size whose channels differ by at most 1
SameModuloRounding(s, t) ==
    /\ s.width = t.width
    /\ s.height = t.height
    /\ \A i \in 1..Len(s.data) : \A k \in 1..4 : Abs(s.data[i][k] - t.data[i][k]) <= 1

IdentityAtOne(name) ==
    (Returned(name) /\ LastOp.args = <<1, 1>>) => SameModuloRounding(surf, prev)

\* C13: brightness(1.0), contrast(1.0) and saturation(1.0) leave R, G, B and
\* A of every pixel equal to their input values (modulo rounding).
C13_IdentityAtOne ==
    /\ IdentityAtOne("brightness")
    /\ IdentityAtOne("contrast")
    /\ IdentityAtOne("saturation")

\* pixel q is pixel p with its rounded luma in R, G and B and its own alpha
GrayOf(p, q) ==
    /\ q[1] = q[2]
    /\ q[2] = q[3]
    /\ 2 * Abs(1000 * q[1] - Luma(p)) <= 1000
    /\ q[4] = p[4]

TwiceGray ==
    /\ Len(hist) >= 2
    /\ hist[Len(hist) - 1].name = "grayscale"
    /\ Returned("grayscale")

\* C14: after grayscale R = G = B = rounded luma 0.299R+0.587G+0.114B and
\* alpha is unchanged; a second grayscale right after the first changes no
\* byte.
C14_GrayscaleIdempotent ==
    /\ Returned("grayscale") =>
            /\ surf.width = prev.width
            /\ surf.height = prev.height
            /\ \A i \in 1..Len(surf.data) : GrayOf(prev.data[i], surf.data[i])
    /\ TwiceGray => surf = prev

\* grayscale ran twice on a canvas with a half-transparent coloured pixel
C14_Witness == TwiceGray /\ \E i \in 1..Len(surf.data) : surf.data[i] = <<124, 124, 124, 128>>

\* resize returned from a call with both targets and fit cover
CoverCall ==
    /\ Returned("resize")
    /\ LastOp.args[1] # Undefined
    /\ LastOp.args[2] # Undefined
    /\ Fits[LastOp.args[3]] = "cover"

\* the size that call computed
Computed == ResizeSize(prev.width, prev.height, LastOp.args[1], LastOp.args[2], LastOp.args[3])

CoversTarget ==
    /\ Computed.wn >= LastOp.args[1] * Computed.wd
    /\ Computed.hn >= LastOp.args[2] * Computed.hd

KeepsWidth == Computed.wn = LastOp.args[1] * Computed.wd
KeepsHeight == Computed.hn = LastOp.args[2] * Computed.hd

\* newWidth / newHeight = currentWidth / currentHeight
KeepsAspect == Computed.wn * Computed.hd * prev.height = Computed.hn * Computed.wd * prev.width

SizeChanging == {"resize", "crop", "rotate"}

OnlySizeChanging ==
    /\ Len(hist) >= 1
    /\ \A k \in 1..Len(hist) : hist[k].name \in SizeChanging
    /\ ~fault

\* C19: after any sequence of resize, crop and rotate with parameters the
\* validation accepts, the surface has a positive integer width and height
\* and width x height pixels of four bytes.
C19_PositiveSize ==
    OnlySizeChanging =>
        /\ surf.width >= 1
        /\ surf.height >= 1
        /\ Len(surf.data) = surf.width * surf.height
        /\ \A i \in 1..Len(surf.data) : Len(surf.data[i]) = 4

ColourStages == {"grayscale", "brightness", "contrast", "saturation", "blur", "sharpen"}

BytesStored == \A i \in 1..Len(surf.data) : \A k \in 1..4 : surf.data[i][k] \in 0..255

\* C20: no colour stage raises an error, and every channel value it stores
\* is an integer in 0..255, for every pixel and parameter, contrast at its
\* singularity included.
C20_ColourStagesClamp ==
    (Len(hist) >= 1 /\ LastOp.name \in ColourStages) => (~fault /\ BytesStored)


-----------------------------------------------------------------------------
(* Further claims about one request (SpecRequest) *)

\* the request was answered with bytes the encoder made
EncodedAnswer ==
    /\ rpc = "done"
    /\ resp.status = 200
    /\ resp.kind = "image"
    /\ resp.body.kind = "encoded"

\* C16: on every path that invokes the encoder the quality handed to
\* toBuffer lies in [0, 1] (0..100 hundredths), for every request the route
\* accepts, every quality query of /convert included.
C16_QualityInUnitInterval ==
    EncodedAnswer => (resp.body.quality.t = "number" /\ resp.body.quality.v \in 0..100)

\* the path parameter of the route is one the route accepts
ValidPath ==
    /\ req.route = "convert" => validateImageFormat(req.param)
    /\ req.route = "filter" => validateFilterType(req.param)

\* part p is a file the route would take: any file for /batch, a file in
\* field image for the others
FileFor(p) == p.hasFn /\ (req.route = "batch" \/ p.name = StrImage)

\* the request carries no such file (a request that is not multipart, or
\* whose body is not framed, has no parts)
NoFileCarried == \A k \in 1..Len(req.parts) : ~FileFor(req.parts[k])

NoProcessor == proc = [none |-> TRUE]

\* C17: every image route with valid path parameters answers a request that
\* carries no uploaded file with FILE_NOT_FOUND at status 400, and creates no
\* ImageProcessor for it.
C17_NoFileAnswered ==
    (rpc = "done" /\ ValidPath /\ NoFileCarried)
        => (resp = handleError(fileNotFound) /\ NoProcessor)


-----------------------------------------------------------------------------
(* A further claim about parseMultipartData (SpecMultipart) *)

\* the decoder returned { files, fields } for a framed body
DecoderReturned == mpc = "done" /\ data = Frame(parts, TRUE)

\* C18: a part with no header-terminating blank line makes the whole decode
\* fail: the decoder does not return a result for such a body, and never
\* drops the part while it returns the remaining ones.
C18_UnclosedPartFails == ~HeadersClosed => ~DecoderReturned

-----------------------------------------------------------------------------
(* Further claims about the methods of ImageProcessor (SpecSurface) *)

\* the in-bounds cells of the (2 * radius + 1)-square window centred on x, y
Window(s, x, y, radius) ==
    {q \in ((x - radius)..(x + radius)) \X ((y - radius)..(y + radius)) :
        Inside(s, q[1], q[2])}

\* byte b is the rounded quotient total / count of a count that is not zero
AverageOf(b, total, count) == count >= 1 /\ 2 * Abs(count * b - total) <= count

\* canvas t holds, in every channel of every pixel, the average of canvas s
\* over the window of that radius
WindowAveraged(s, t, radius) ==
    /\ t.width = s.width
    /\ t.height = s.height
    /\ \A i \in 1..Len(t.data) : \A k \in 1..4 :
        AverageOf(t.data[i][k],
                  Sum(s, Window(s, (i - 1) % s.width, (i - 1) \div s.width, radius), k),
                  Cardinality(Window(s, (i - 1) % s.width, (i - 1) \div s.width, radius)))

\* radius is max(1, floor(sigma)) of the sigma handed to blur; a sigma that
\* is no number leaves any radius of 1 or more
RadiusOf(sigma) ==
    IF sigma[2] = 0 THEN 1..3 ELSE {Max({1, sigma[1] \div sigma[2]})}

\* C21: blur(sigma) uses radius max(1, floor(sigma)) and sets R, G, B and A
\* of every pixel to the unweighted average of the in-bounds source pixels of
\* the (2 * radius + 1)-square window centred on it; the divisor is the
\* in-bounds count and is never zero, and sigma = 0.3 averages a 3x3 window.
C21_BlurWindowAverage ==
    Returned("blur") => \E radius \in RadiusOf(LastOp.args) : WindowAveraged(prev, surf, radius)

\* cell i of a canvas of that width and height lies on the outermost ring
OnRing(i, width, height) ==
    \/ (i - 1) % width \in {0, width - 1}
    \/ (i - 1) \div width \in {0, height - 1}

\* clamp(5 * c - up - down - left - right) on channel k of cell i of canvas s
Sharper(s, i, k) ==
    Clamp(5 * s.data[i][k] - s.data[i - s.width][k] - s.data[i + s.width][k]
            - s.data[i - 1][k] - s.data[i + 1][k])

\* C22: sharpen leaves unchanged every alpha value and every pixel of the
\* outermost ring, changes nothing on a canvas with width < 3 or height < 3,
\* and sets R, G, B of every interior pixel to
\* clamp(5 * c - up - down - left - right) of the source pixels.
C22_SharpenInterior ==
    Returned("sharpen") =>
        /\ surf.width = prev.width
        /\ surf.height = prev.height
        /\ (prev.width < 3 \/ prev.height < 3) => surf = prev
        /\ \A i \in 1..Len(surf.data) :
            /\ surf.data[i][4] = prev.data[i][4]
            /\ IF OnRing(i, prev.width, prev.height)
               THEN surf.data[i] = prev.data[i]
               ELSE \A k \in 1..3 : surf.data[i][k] = Sharper(prev, i, k)

\* sharpen changed a canvas with interior pixels next to each other
C22_Witness ==
    /\ Returned("sharpen")
    /\ surf.width = 4
    /\ surf.height = 4
    /\ surf.data[6] # prev.data[6]
    /\ surf.data[7] # prev.data[7]

-----------------------------------------------------------------------------
(* Further claims about extractImageInfo (SpecDimensions) *)

\* n is the unsigned big-endian value of the four bytes of d from offset i
BigEndian32(n, d, i) ==
    /\ n >= 0
    /\ n \div 16777216 = At(d, i)
    /\ n % 16777216 = At(d, i + 1) * 65536 + At(d, i + 2) * 256 + At(d, i + 3)

\* extraction ran on a PNG buffer of at least 24 bytes
PngMeasured == dpc = "done" /\ detectFormat(buf) = "png" /\ Len(buf) >= 24

\* C23: for every PNG buffer of at least 24 bytes the extraction returns the
\* declared size: width is the 4-byte big-endian value at offsets 16..19 and
\* height the one at offsets 20..23, for every value the fields can encode.
C23_PngDeclaredSize ==
    PngMeasured =>
        /\ ReturnedPair
        /\ BigEndian32(dims.width, buf, 16)
        /\ BigEndian32(dims.height, buf, 20)

\* the indices from 2 on that hold 0xFF followed by 0xC0, 0xC1 or 0xC2
FrameMarkers(d) ==
    {m \in 2..(Len(d) - 2) : At(d, m) = 255 /\ At(d, m + 1) \in {192, 193, 194}}

\* extraction ran on a JPEG buffer whose first frame header lies inside it
JpegMeasured ==
    /\ dpc = "done"
    /\ detectFormat(buf) = "jpeg"
    /\ FrameMarkers(buf) # {}
    /\ Min(FrameMarkers(buf)) + 8 <= Len(buf) - 1

\* C24: for a JPEG buffer the extraction returns height = the big-endian 16
\* bits at m + 5 and width = those at m + 7, m being the first index >= 2 that
\* holds 0xFF followed by 0xC0, 0xC1 or 0xC2, whenever these fields lie inside
\* the buffer, a frame header that ends at the last byte included.
C24_JpegFrameSize ==
    JpegMeasured =>
        /\ ReturnedPair
        /\ dims.height = 256 * At(buf, Min(FrameMarkers(buf)) + 5)
                            + At(buf, Min(FrameMarkers(buf)) + 6)
        /\ dims.width = 256 * At(buf, Min(FrameMarkers(buf)) + 7)
                            + At(buf, Min(FrameMarkers(buf)) + 8)

\* the signatures in the order PNG, JPEG, GIF, WEBP (RIFF), BMP
OrderedSignatures ==
    << <<"png", <<137, 80, 78, 71>> >>, <<"jpeg", <<255, 216, 255>> >>,
       <<"gif", <<71, 73, 70>> >>, <<"webp", <<82, 73, 70, 70>> >>,
       <<"bmp", <<66, 77>> >> >>

\* signature g is a byte-for-byte prefix of buffer d
IsPrefix(g, d) == Len(g) <= Len(d) /\ SubSeq(d, 1, Len(g)) = g

\* the tag of the first of them that is a prefix of d, unknown when none is
FirstPrefix(d) ==
    IF \E k \in 1..Len(OrderedSignatures) : IsPrefix(OrderedSignatures[k][2], d)
    THEN OrderedSignatures[
            Min({k \in 1..Len(OrderedSignatures) : IsPrefix(OrderedSignatures[k][2], d)})][1]
    ELSE "unknown"

\* the case of extractImageInfo that ran, read off its result
RanCase(format) ==
    dims = CASE format = "png" -> extractPngInfo(buf)
             [] format = "jpeg" -> extractJpegInfo(buf)
             [] format = "gif" -> extractGifInfo(buf)
             [] format = "bmp" -> extractBmpInfo(buf)
             [] format = "webp" -> extractWebpInfo(buf)
             [] OTHER -> DefaultSize

\* C25: format identification returns the tag of the first signature, in
\* the order PNG, JPEG, GIF, WEBP (RIFF), BMP, that is a byte-for-byte prefix
\* of the buffer, and unknown when none is; isValidImageFormat is true
\* exactly when detectFormat is not unknown.
C25_FirstSignatureWins ==
    /\ detectFormat(buf) = FirstPrefix(buf)
    /\ isValidImageFormat(buf) <=> (detectFormat(buf) # "unknown")
    /\ dpc = "done" => RanCase(FirstPrefix(buf))

\* a buffer that is nothing but the RIFF prefix went through the WebP case
C25_Witness ==
    /\ dpc = "done"
    /\ buf = <<82, 73, 70, 70>>
    /\ detectFormat(buf) = "webp"
    /\ isValidImageFormat(buf)
    /\ dims = DefaultSize

-----------------------------------------------------------------------------
(* Further claims about parseMultipartData (SpecMultipart) *)

\* file entry f was made from part p: its declared type, and its payload at
\* the head of the buffer
MadeFrom(f, p) ==
    /\ f.type = p.ctype
    /\ Len(f.buffer) >= Len(p.payload)
    /\ SubSeq(f.buffer, 1, Len(p.payload)) = p.payload

\* the last of the text parts named n
LastTextPart(n) == TextPartsNamed(n)[Len(TextPartsNamed(n))]

\* C26: when several text parts carry the same field name the fields map
\* holds for that name the trimmed value of the last of them in body order,
\* while the file parts of one field name are all kept, in body order, in
\* the list of that name.
C26_DuplicateNames ==
    (Decoded /\ HeadersClosed)
    => \A n \in PartNames :
          /\ Len(TextPartsNamed(n)) >= 2 =>
                /\ MapHas(fields, n)
                /\ MapGet(fields, n) = Trim(Decode(LastTextPart(n).payload))
          /\ Len(FilePartsNamed(n)) >= 2 =>
                /\ Len(FilesNamed(n)) = Len(FilePartsNamed(n))
                /\ \A k \in 1..Len(FilePartsNamed(n)) :
                      k <= Len(FilesNamed(n)) =>
                          MadeFrom(FilesNamed(n)[k], FilePartsNamed(n)[k])

-----------------------------------------------------------------------------
(* SpecScan: one call of parseMultipartData for any boundary string, on
   framed bodies and on bodies made of delimiters alone.  The loop body holds
   one await, of parsePart, which settles: a pass that can run does run. *)

Tokens == { << >>, <<45>>, BoundaryToken }

\* bodies of bare delimiters: one at the very end, two in a row, two lines,
\* runs of hyphens, a delimiter cut after its CR
RawBodies ==
    { << >>,
      boundaryBytes(BoundaryToken),
      boundaryBytes(BoundaryToken) \o boundaryBytes(BoundaryToken),
      <<120>> \o boundaryBytes(BoundaryToken),
      boundaryBytes(BoundaryToken) \o CRLF \o boundaryBytes(BoundaryToken) \o CRLF,
      <<45, 45, 45, 45>>,
      <<45, 45, 45, 45, 45>>,
      boundaryBytes(BoundaryToken) \o <<CR>> }

InitScan ==
    /\ \/ \E ps \in SeqsUpTo(PartKinds, MaxParts), closed \in BOOLEAN :
            /\ parts = ps
            /\ data = Frame(ps, closed)
       \/ /\ parts = << >>
          /\ data \in RawBodies
    /\ token \in Tokens
    /\ start = 0
    /\ end = 0
    /\ files = << >>
    /\ fields = << >>
    /\ mpc = "loop"
    /\ ProcessIdle
    /\ DimensionsIdle
    /\ SurfaceIdle
    /\ RequestIdle

SpecScan == InitScan /\ [][NextMultipart]_vars /\ WF_vars(NextMultipart)

\* the delimiter `--<token>` stands at offset i of the body
DelimiterAt(i) ==
    /\ i + 2 + Len(token) <= Len(data)
    /\ SubSeq(data, i + 1, i + 2 + Len(token)) = <<45, 45>> \o token

\* no delimiter stands at or after the cursor
NoDelimiterAhead == \A i \in start..Len(data) : ~DelimiterAt(i)

\* C27: parseMultipartData terminates for every body and every boundary
\* token: the scan cursor strictly increases on every pass of the loop, and
\* the loop exits as soon as no delimiter is found at or after the cursor.
C27_ScanTerminates ==
    /\ [][/\ mpc' = "loop" => start' > start
          /\ mpc' = "done" => NoDelimiterAhead
          /\ NoDelimiterAhead => mpc' = "done"]_vars
    /\ <>(mpc = "done")

\* the call returned after two passes over a body of two delimiters in a
\* row, the second at the very end
C27_Witness ==
    /\ mpc = "done"
    /\ data = boundaryBytes(BoundaryToken) \o boundaryBytes(BoundaryToken)
    /\ token = BoundaryToken
    /\ start = Len(data)

-----------------------------------------------------------------------------
(* Further claims about one request (SpecRequest) *)

\* the request was answered with an image
ImageAnswer == rpc = "done" /\ resp.status = 200 /\ resp.kind = "image"

\* the media type of the format the bytes `out` are encoded in: the type the
\* encoder was asked for (PNG when it is none the canvas encodes), or the
\* type of the signature the original bytes start with
EncodingOf(out) ==
    IF out.kind = "encoded"
    THEN CASE out.format = "jpeg" -> MimeJpeg
           [] out.format = "webp" -> MimeWebp
           [] OTHER -> MimePng
    ELSE CASE FirstPrefix(out.bytes) = "png" -> MimePng
           [] FirstPrefix(out.bytes) = "jpeg" -> MimeJpeg
           [] FirstPrefix(out.bytes) = "gif" -> MimeGif
           [] FirstPrefix(out.bytes) = "webp" -> MimeWebp
           [] FirstPrefix(out.bytes) = "bmp" -> MimeBmp
           [] OTHER -> StrOctetStream

\* C28: for every successful image response of /process, /resize, /crop,
\* /convert and /filter the Content-Type header names the format in which
\* the returned bytes are encoded, whether or not a canvas was available.
C28_ContentTypeNamesEncoding ==
    ImageAnswer => resp.contentType = EncodingOf(resp.body)

\* initialize did not end with a canvas together with its 2D context: the
\* platform lacks createImageBitmap or OffscreenCanvas, the decode failed, or
\* getContext('2d') gave null
NoUsableCanvas == ~rt.api \/ ~rt.decodable \/ ~rt.ctx

\* the bytes of the file the route made its processor from
UploadedBytes == getUploadedFile(StrImage).file.buffer

\* C29: whenever initialization did not end with a usable canvas together
\* with its 2D context, every transform and process() is a no-op and toBuffer
\* returns the original input bytes unchanged, for every options object,
\* format and quality.
C29_FallbackReturnsOriginal ==
    (ImageAnswer /\ NoUsableCanvas) => resp.body = Original(UploadedBytes)

-----------------------------------------------------------------------------
(* A further claim about contrast (SpecSurface) *)

\* contrast took the canvas prev to the canvas surf without inverting the
\* order of two channel values
OrderKept ==
    \A i, j \in 1..Len(prev.data) : \A k, l \in 1..3 :
        prev.data[i][k] < prev.data[j][l] => surf.data[i][k] <= surf.data[j][l]

\* C30: for every contrast value in the validated range [0.1, 3] the stage
\* is order-preserving on channel values: c1 <= c2 gives
\* output(c1) <= output(c2); the factor never inverts the image.
C30_ContrastKeepsOrder == Returned("contrast") => OrderKept

====
